---- MODULE Spec2Model ----
(***************************************************************************)
(* Reconciliation engine of the plugin auto-manager                        *)
(* (scripts/auto-manager.py): the install/retry state machine, the        *)
(* install-state store with its temp-file + rename persistence, and the   *)
(* update step of one pass.                                                *)
(*                                                                         *)
(* A unit identifier is modelled by the result of plugin_name.split("@"): *)
(* <<"beta">> is the local unit "beta", <<"beta", "src2">> is             *)
(* "beta@src2".  A timestamp string is modelled by what                   *)
(* datetime.fromisoformat makes of it: [ok |-> TRUE, t |-> seconds] when  *)
(* it parses, [ok |-> FALSE, t |-> 0] when it raises.                     *)
(***************************************************************************)
EXTENDS Integers, Sequences, FiniteSets, TLC

\* ---------------------------------------------------------------- constants
RETRY_INTERVAL_SECONDS == 600
MAX_RETRY_COUNT == 5

\* ------------------------------------------------------------------- bounds
\* Last clock value (seconds) at which the clock may still advance.
MaxTime == 1200
\* Upper limit of the ghost counter of consecutive failed attempts.
MaxFails == 8

\* Amounts by which the wall clock advances between two passes.
TickSteps == {599, 600}

\* -------------------------------------------------------------------- units
Alpha == <<"alpha", "src1">>
Beta == <<"beta", "src2">>
LocalBeta == <<"beta">>

Units == {Alpha, Beta, LocalBeta}

\* Fixed order in which the records of a document are serialised.
UnitOrder == <<Alpha, Beta, LocalBeta>>

\* Snapshots (keys of current.json "plugins") the machine may hold.
SnapshotChoices == {{Alpha, Beta, LocalBeta}, {Beta}}

\* Observed installed sets (keys of installed_plugins.json) at start.
InstalledChoices == {{Alpha}, {LocalBeta}}

\* "@" in plugin
HasAt(u) == Len(u) >= 2

\* plugin_name.split("@")[0]
BaseName(u) == <<u[1]>>

\* datetime.isoformat() of the clock value t
IsoFormat(t) == [ok |-> TRUE, t |-> t]

\* A last_attempt value datetime.fromisoformat rejects (ValueError/TypeError).
BadTimestamp == [ok |-> FALSE, t |-> 0]

\* ---------------------------------------------------------- install records
\* state[plugin_name] written on success
InstalledRecord(t) ==
    [status |-> "installed", last_attempt |-> IsoFormat(t), retry_count |-> 0]

\* state[plugin_name] written on the first failure
FirstFailedRecord(t) ==
    [status |-> "failed", last_attempt |-> IsoFormat(t), retry_count |-> 1,
     first_failed_at |-> IsoFormat(t)]

\* The dict with no key.
EmptyState == [u \in {} |-> InstalledRecord(0)]

\* state[u] = r
Put(state, u, r) == [x \in DOMAIN state \cup {u} |-> IF x = u THEN r ELSE state[x]]

\* del state[u] (an operator editing the file by hand)
Remove(state, u) == [x \in DOMAIN state \ {u} |-> state[x]]

\* ------------------------------------------------------------------- files
StatePath == "last-install-state.json"
TmpPath == "last-install-state.json.tmp"
Paths == {StatePath, TmpPath}

NoFile == [exists |-> FALSE, content |-> <<>>]

\* Mutant: the document is written straight to the canonical path.
TempPathInPlace(path) == path

\* LAST_INSTALL_STATE.with_suffix(".json.tmp")
TempPathOf(path) == IF path = StatePath THEN TmpPath ELSE path

\* Keys of a dict in serialisation order.
KeysOf(state) == SelectSeq(UnitOrder, LAMBDA u : u \in DOMAIN state)

\* Mutant: the document keeps only the three fields every record has.
SerializeCoreFields(state, t) ==
    LET keys == KeysOf(state)
    IN  <<[tok |-> "open"]>>
        \o [i \in 1..Len(keys) |->
              [tok |-> "entry", key |-> keys[i],
               val |-> [status |-> state[keys[i]].status,
                        last_attempt |-> state[keys[i]].last_attempt,
                        retry_count |-> state[keys[i]].retry_count]]]
        \o <<[tok |-> "timestamp", val |-> IsoFormat(t)], [tok |-> "close"]>>

\* json.dumps(state_data): the document as the sequence of its pieces.
Serialize(state, t) ==
    LET keys == KeysOf(state)
    IN  <<[tok |-> "open"]>>
        \o [i \in 1..Len(keys) |-> [tok |-> "entry", key |-> keys[i], val |-> state[keys[i]]]]
        \o <<[tok |-> "timestamp", val |-> IsoFormat(t)], [tok |-> "close"]>>

\* json.loads accepts the text: it is a complete document, in the current
\* form ("plugins" a dict, given entry by entry) or in the legacy form
\* ("plugins" a list, given as one piece), with or without "timestamp".
WellFormed(content) ==
    /\ Len(content) >= 2
    /\ content[1].tok = "open"
    /\ content[Len(content)].tok = "close"
    /\ \A i \in 2..(Len(content) - 1) : content[i].tok \in {"entry", "list", "timestamp"}

\* json.loads(text).get("plugins", {}) of a complete document whose
\* "plugins" is a dict.
ParsePlugins(content) ==
    LET idx == {i \in 1..Len(content) : content[i].tok = "entry"}
        keys == {content[i].key : i \in idx}
    IN  [u \in keys |-> content[CHOOSE i \in idx : content[i].key = u].val]

\* "plugins" in state_data and isinstance(state_data["plugins"], list)
IsLegacy(content) == \E i \in 1..Len(content) : content[i].tok = "list"

\* state_data["plugins"] of a legacy document, as the set it iterates over.
LegacyPlugins(content) ==
    LET i == CHOOSE j \in 1..Len(content) : content[j].tok = "list"
    IN  {content[i].items[k] : k \in 1..Len(content[i].items)}

\* state_data.get("timestamp", "")
TimestampField(content) ==
    IF \E i \in 1..Len(content) : content[i].tok = "timestamp"
    THEN content[CHOOSE i \in 1..Len(content) : content[i].tok = "timestamp"].val
    ELSE BadTimestamp

\* json.loads(text)["timestamp"] of a complete document, as a clock value.
ParseTimestamp(content) == content[Len(content) - 1].val.t

\* load_install_state raises (json.JSONDecodeError) on this file.
LoadRaises(file) == file.exists /\ ~WellFormed(file.content)

\* Mutant: the legacy list is read as if it were the dict of records.
LoadInstallStateNoLegacy(file) ==
    IF ~file.exists THEN EmptyState ELSE ParsePlugins(file.content)

\* load_install_state on a file it can read.
LoadInstallState(file) ==
    IF ~file.exists
    THEN EmptyState
    ELSE IF IsLegacy(file.content)
    THEN [u \in LegacyPlugins(file.content) |->
             [status |-> "installed", last_attempt |-> TimestampField(file.content),
              retry_count |-> 0]]
    ELSE ParsePlugins(file.content)

\* The file save_install_state produces for state at clock value t.
DocFile(state, t) == [exists |-> TRUE, content |-> Serialize(state, t)]

\* The records hold a failed record for unit u.
HasFailed(state, u) == u \in DOMAIN state /\ state[u].status = "failed"

\* ... whose last_attempt does not parse.
HasUnparseableFailure(state, u) == HasFailed(state, u) /\ ~state[u].last_attempt.ok

\* ---------------------------------------------------- retry state machine
\* install_plugin: the name is valid and the external command exits 0.
\* outcome is what the external command does: "ok", "fail" or "timeout".
ValidName(u) == Len(u) = 2 /\ u[1] # "" /\ u[2] # ""

InstallPlugin(u, outcome) == ValidName(u) /\ outcome = "ok"

\* Mutant: the units already installed are not subtracted.
MissingIgnoringInstalled(snap, inst) == {u \in snap : HasAt(u)}

\* set(snapshot_plugins.keys()) - installed, local units excluded
Missing(snap, inst) == {u \in snap \ inst : HasAt(u)}

\* The decision on a failed record r at clock value t, with the comparison
\* of the retry count, the comparison of the elapsed time and the answer for
\* an unparseable last_attempt as parameters of the mutants below.
DecideFailedWith(r, t, overLimit, longEnough, onBadStamp) ==
    IF overLimit
    THEN FALSE
    ELSE IF ~r.last_attempt.ok
    THEN onBadStamp
    ELSE longEnough

DecideWith(state, u, t, strict, limit, onBadStamp) ==
    IF u \notin DOMAIN state
    THEN TRUE
    ELSE LET r == state[u]
         IN  IF r.status = "installed"
             THEN TRUE
             ELSE IF r.status = "failed"
             THEN DecideFailedWith(r, t, r.retry_count > limit,
                      IF strict
                      THEN (t - r.last_attempt.t) > RETRY_INTERVAL_SECONDS
                      ELSE (t - r.last_attempt.t) >= RETRY_INTERVAL_SECONDS,
                      onBadStamp)
             ELSE FALSE

\* Mutant: elapsed > RETRY_INTERVAL_SECONDS instead of >=.
DecideStrictInterval(state, u, t) == DecideWith(state, u, t, TRUE, MAX_RETRY_COUNT, TRUE)

\* Mutant: retry_count > MAX_RETRY_COUNT + 1, one attempt too many.
DecideLimitOffByOne(state, u, t) == DecideWith(state, u, t, FALSE, MAX_RETRY_COUNT + 1, TRUE)

\* Mutant: an unparseable last_attempt skips the unit (fail-closed).
DecideFailClosed(state, u, t) == DecideWith(state, u, t, FALSE, MAX_RETRY_COUNT, FALSE)

\* Mutant: the timestamp is parsed before the retry count is compared, so an
\* unparseable last_attempt allows the retry whatever the count.
DecideParseFirst(state, u, t) ==
    IF HasUnparseableFailure(state, u)
    THEN TRUE
    ELSE DecideWith(state, u, t, FALSE, MAX_RETRY_COUNT, TRUE)

\* Body of the loop of check_missing_plugins: TRUE when plugin u is added to
\* to_install at clock value t.
Decide(state, u, t) ==
    IF u \notin DOMAIN state
    THEN TRUE
    ELSE LET r == state[u]
         IN  IF r.status = "installed"
             THEN TRUE
             ELSE IF r.status = "failed"
             THEN IF r.retry_count > MAX_RETRY_COUNT
                  THEN FALSE
                  ELSE IF ~r.last_attempt.ok
                  THEN TRUE
                  ELSE (t - r.last_attempt.t) >= RETRY_INTERVAL_SECONDS
             ELSE FALSE

\* check_missing_plugins: the set to_install
ToInstall(snap, inst, state, t) ==
    IF snap = {}
    THEN {}
    ELSE {u \in Missing(snap, inst) : Decide(state, u, t)}

\* Mutant: the first failure is recorded with retry_count 0.
RecordResultFirstZero(state, u, success, t) ==
    IF success
    THEN Put(state, u, InstalledRecord(t))
    ELSE IF HasFailed(state, u)
    THEN [state EXCEPT ![u].retry_count = @ + 1, ![u].last_attempt = IsoFormat(t)]
    ELSE Put(state, u, [FirstFailedRecord(t) EXCEPT !.retry_count = 0])

\* Mutant: every failure stamps first_failed_at again.
RecordResultRestamp(state, u, success, t) ==
    IF success
    THEN Put(state, u, InstalledRecord(t))
    ELSE IF HasFailed(state, u)
    THEN [state EXCEPT ![u].retry_count = @ + 1, ![u].last_attempt = IsoFormat(t),
                       ![u].first_failed_at = IsoFormat(t)]
    ELSE Put(state, u, FirstFailedRecord(t))

\* Mutant: a success after failures only flips the status of the record.
RecordResultKeepCount(state, u, success, t) ==
    IF success
    THEN IF HasFailed(state, u)
         THEN [state EXCEPT ![u].status = "installed", ![u].last_attempt = IsoFormat(t)]
         ELSE Put(state, u, InstalledRecord(t))
    ELSE IF HasFailed(state, u)
    THEN [state EXCEPT ![u].retry_count = @ + 1, ![u].last_attempt = IsoFormat(t)]
    ELSE Put(state, u, FirstFailedRecord(t))

\* Mutant: the dict is rebuilt with the attempted unit only.
RecordResultFresh(state, u, success, t) ==
    IF success
    THEN Put(EmptyState, u, InstalledRecord(t))
    ELSE IF HasFailed(state, u)
    THEN Put(EmptyState, u, [state[u] EXCEPT !.retry_count = @ + 1, !.last_attempt = IsoFormat(t)])
    ELSE Put(EmptyState, u, FirstFailedRecord(t))

\* Body of the loop of install_missing_plugins: the dict after the attempt
\* of plugin u, made at clock value t, succeeded or not.
RecordResult(state, u, success, t) ==
    IF success
    THEN Put(state, u, InstalledRecord(t))
    ELSE IF u \in DOMAIN state /\ state[u].status = "failed"
    THEN [state EXCEPT ![u].retry_count = @ + 1, ![u].last_attempt = IsoFormat(t)]
    ELSE Put(state, u, FirstFailedRecord(t))

\* ------------------------------------------------------------ update step
\* remote_plugins of update_all_plugins
RemotePlugins(inst) == {u \in inst : HasAt(u)}

\* Arguments _update_single_plugin hands to "claude plugin update" when the
\* update by full name ends first: "ok", "not_installed" (non-zero exit,
\* output contains "not installed"), "other" (any other non-zero exit) or
\* "timeout".
UpdateArgs(u, first) ==
    IF first = "not_installed" THEN {u, BaseName(u)} ELSE {u}

UpdateOutcomes == {"ok", "not_installed", "other", "timeout"}
InstallOutcomes == {"ok", "fail", "timeout"}

\* ------------------------------------------------------------------ state
VARIABLES
    now,          \* wall clock, seconds
    snapshot,     \* keys of "plugins" in snapshots/current.json
    installed,    \* keys of "plugins" in installed_plugins.json
    fs,           \* the install-state file and its temporary sibling
    pc,           \* position of the running pass, "idle" between passes
    to_install,   \* check_missing_plugins' result
    remaining,    \* plugins the install loop has not reached yet
    mem,          \* the dict `state` of install_missing_plugins
    updRemaining, \* plugins the update loop has not reached yet
    installCalls, \* names passed to "claude plugin install" in this pass
    updateCalls,  \* names passed to "claude plugin update" in this pass
    fails,        \* per unit: failed attempts since the last success or reset
    firstFailT,   \* per unit: clock value of the first of those failures
    lastAttT,     \* per unit: clock value of the latest attempt
    saveOld,      \* canonical file when the latest save began
    saveNew       \* document the latest save was writing

\* State of the save/load round trip of the install-state document.
VARIABLES
    rtPc,         \* "off", "start", "saved", "legacy" or "loaded"
    rtIn,         \* the dict handed to save_install_state
    rtFile,       \* the install-state file of the round trip
    rtOut         \* the dict load_install_state returned

\* State of the writers of the shared files.
VARIABLES
    disk,         \* the shared files and their temporary siblings
    wpc,          \* position of the writer: "idle", "writing" or "rename"
    wfile,        \* canonical path the writer is producing
    wdoc          \* document the writer is producing

\* State of two processes saving the install-state at the same time.
VARIABLES
    rnames,       \* directory: canonical and temporary name -> inode or "none"
    rinodes,      \* content of each inode
    rproc,        \* per process: position, open inode, pieces written
    lastRenamer   \* process whose rename succeeded last, "none" before

\* State of the driver (main) across successive passes.
VARIABLES
    dpc,          \* step main is about to run, "idle" between passes
    force,        \* args.force_update of the pass
    inSession,    \* "CLAUDECODE" in os.environ of the pass
    cfg,          \* config["auto_update"] the pass loads
    lastUpdate,   \* LAST_UPDATE_FILE: whether it exists and the time it holds
    ran,          \* steps of main the pass has entered
    invoked,      \* external operations the pass has invoked
    exitCode,     \* exit code of the pass
    lastEnd,      \* whether a pass has completed, and when the latest did
    near,         \* the pass started inside the cooldown window of lastEnd
    ticks         \* number of clock advances so far

\* State of update_all_plugins.
VARIABLES
    upc,          \* "off", "start", "updating" or "done"
    uInstalled,   \* keys of installed_plugins.json the update step reads
    uQueue,       \* remote plugins the loop has not reached yet
    uLog,         \* names passed to "claude plugin update", in order
    uSuccess,     \* success_count
    uLast         \* the latest _update_single_plugin call and what it did

\* State of the snapshot steps of a pass (install, compare, regenerate,
\* publish).
VARIABLES
    snPc,         \* "off", "start", "installed", "create", "publish" or "done"
    snOld,        \* snapshots/current.json when the pass starts
    snNow,        \* snapshots/current.json now
    snEnabled,    \* keys of "enabledPlugins" in settings.json
    snInstalled,  \* "plugins" of installed_plugins.json: name -> version
    snMarkets,    \* known_marketplaces.json: name -> entry has a dict "source"
    snChanged,    \* plugins_changed of main
    snHas,        \* whether snapshot_has_changes was called, and its result
    snOps         \* operations invoked: "create", "created", "publish"

\* State of the marketplace registry sync.
VARIABLES
    rgLocal,      \* known_marketplaces.json: name -> entry
    rgPrev,       \* known_marketplaces.json before the latest sync
    rgSnap,       \* "marketplaces" of current.json: name -> info
    rgNested,     \* is_in_claude_session() during the latest sync
    rgRefreshed,  \* names the latest sync passed to "marketplace update"
    rgRuns        \* number of syncs so far

\* State of the startup service installer and of the self-heal step.
VARIABLES
    svIndicators, \* sandbox indicators present on the machine
    svSystem,     \* platform.system()
    svWhich,      \* shutil.which("systemctl") finds the command
    svPlist,      \* the launch agent plist exists
    svUnit,       \* the systemd unit file exists
    svCron,       \* lines of the user's crontab
    svCron0,      \* lines of the crontab at the start
    svFirst,      \* variant of the first install_service call
    svUsed,       \* variants returned by get_platform so far
    svLast,       \* latest get_platform call: probe outcome and variant
    svCmds,       \* commands run by the latest is_service_installed
    svReported,   \* outcome of the latest is_service_installed
    svCalled,     \* the latest pass called install_service
    svResult,     \* result of the latest install
    svPc,         \* position of the pass
    svRuns        \* number of calls so far

\* State of one installer call followed by one existence check.
VARIABLES
    inVariant,    \* variant get_platform returns on the machine
    inRegs,       \* registrations: plist exists, unit exists, marked cron line
    inRun,        \* what the environment did during the install
    inCmds,       \* commands the install ran
    inResult,     \* return value of install_service
    inReported,   \* return value of the is_service_installed that follows
    inPc          \* "idle", "installed", "checked"

\* State of the self-registration steps of a pass.
VARIABLES
    srFile,       \* installed_plugins.json
    srBefore,     \* installed_plugins.json before the latest ensure_self_registered
    srCfg,        \* auto_install enabled, update due
    srRan,        \* steps of the pass that ran
    srPc          \* position of the pass

\* State of the global hook registration.
VARIABLES
    ghDoc,        \* settings.local.json
    ghDoc0,       \* settings.local.json at the start
    ghPrev,       \* settings.local.json before the latest ensure_global_hook
    ghWrote,      \* the latest ensure_global_hook wrote the file
    ghSaid,       \* what the latest ensure_global_hook logged
    ghCalls       \* number of calls so far

\* State of two passes that overlap in time.
VARIABLES
    ovPc,         \* per pass: "check", "load", "attempt", "save" or "done"
    ovTodo,       \* per pass: to_install
    ovMem,        \* per pass: the dict `state` of install_missing_plugins
    ovFile,       \* the install-state file
    ovFile0,      \* the install-state file before the two passes
    ovAttempts    \* install attempts made by the two passes

core == <<now, snapshot, installed, fs, pc, to_install, remaining, mem,
          updRemaining, installCalls, updateCalls, fails, firstFailT,
          lastAttT, saveOld, saveNew>>

storeVars == <<rtPc, rtIn, rtFile, rtOut>>

writeVars == <<disk, wpc, wfile, wdoc>>

raceVars == <<rnames, rinodes, rproc, lastRenamer>>

driverVars == <<dpc, force, inSession, cfg, lastUpdate, ran, invoked, exitCode,
                lastEnd, near, ticks>>

updVars == <<upc, uInstalled, uQueue, uLog, uSuccess, uLast>>

snapVars == <<snPc, snOld, snNow, snEnabled, snInstalled, snMarkets, snChanged,
              snHas, snOps>>

registryVars == <<rgLocal, rgPrev, rgSnap, rgNested, rgRefreshed, rgRuns>>

serviceVars == <<svIndicators, svSystem, svWhich, svPlist, svUnit, svCron, svCron0, svFirst, svUsed, svLast, svCmds, svReported, svCalled, svResult, svPc, svRuns>>

installVars == <<inVariant, inRegs, inRun, inCmds, inResult, inReported, inPc>>

selfVars == <<srFile, srBefore, srCfg, srRan, srPc>>

hookVars == <<ghDoc, ghDoc0, ghPrev, ghWrote, ghSaid, ghCalls>>

overlapVars == <<ovPc, ovTodo, ovMem, ovFile, ovFile0, ovAttempts>>

aux == <<storeVars, writeVars, raceVars, driverVars, updVars, snapVars, registryVars, serviceVars, installVars, selfVars, hookVars, overlapVars>>

vars == <<core, aux>>

ghosts == <<fails, firstFailT, lastAttT>>

RemoteUnits == {u \in Units : HasAt(u)}

StoreIdle ==
    /\ rtPc = "off"
    /\ rtIn = EmptyState
    /\ rtFile = NoFile
    /\ rtOut = EmptyState

\* Canonical shared files: install-state, snapshot, registry map and the two
\* service descriptor files.
SharedFiles == {<<"last-install-state.json">>, <<"current.json">>,
                <<"known_marketplaces.json">>, <<"launchagent.plist">>,
                <<"systemd.service">>}

\* path.with_suffix(<suffix> + ".tmp")
Sibling(f) == f \o <<"tmp">>

WritePaths == SharedFiles \cup {Sibling(f) : f \in SharedFiles}

WritesIdle ==
    /\ disk = [p \in WritePaths |-> NoFile]
    /\ wpc = "idle"
    /\ wfile = <<"current.json">>
    /\ wdoc = <<>>

\* The two saving processes; an inode is named after the process whose
\* open() created it.
Savers == {"A", "B"}

RaceIdle ==
    /\ rnames = [n \in Paths |-> "none"]
    /\ rinodes = [i \in Savers |-> <<>>]
    /\ rproc = [p \in Savers |-> [pc |-> "off", fd |-> "none", off |-> 0]]
    /\ lastRenamer = "none"

\* config["auto_update"] of the default configuration.
DefaultIntervalHours == 24

DefaultConfig == [enabled |-> TRUE, interval_hours |-> DefaultIntervalHours]

\* A timestamp file that does not exist.
NoStamp == [exists |-> FALSE, t |-> 0]

DriverIdle ==
    /\ dpc = "idle"
    /\ force = FALSE
    /\ inSession = FALSE
    /\ cfg = DefaultConfig
    /\ lastUpdate = NoStamp
    /\ ran = {}
    /\ invoked = {}
    /\ exitCode = 0
    /\ lastEnd = NoStamp
    /\ near = FALSE
    /\ ticks = 0

\* subprocess.run raised TimeoutExpired: there is no result.
TimedOut == [timeout |-> TRUE, rc |-> 0, out |-> <<>>, err |-> <<>>]

\* No _update_single_plugin call has been made.
NoUpdateCall ==
    [unit |-> <<>>, first |-> TimedOut, second |-> TimedOut, calls |-> <<>>,
     ok |-> FALSE, before |-> 0]

UpdIdle ==
    /\ upc = "off"
    /\ uInstalled = {}
    /\ uQueue = {}
    /\ uLog = <<>>
    /\ uSuccess = 0
    /\ uLast = NoUpdateCall

\* current.json does not exist.
NoSnapshot == [exists |-> FALSE, plugins |-> <<>>, marketplaces |-> {}]

\* snapshot_has_changes has not been called.
NotCalled == [called |-> FALSE, value |-> FALSE]

SnapIdle ==
    /\ snPc = "off"
    /\ snOld = NoSnapshot
    /\ snNow = NoSnapshot
    /\ snEnabled = {}
    /\ snInstalled = <<>>
    /\ snMarkets = <<>>
    /\ snChanged = FALSE
    /\ snHas = NotCalled
    /\ snOps = {}

RegistryIdle ==
    /\ rgLocal = <<>>
    /\ rgPrev = <<>>
    /\ rgSnap = <<>>
    /\ rgNested = FALSE
    /\ rgRefreshed = {}
    /\ rgRuns = 0

ServiceIdle ==
    /\ svIndicators = {}
    /\ svSystem = "Linux"
    /\ svWhich = FALSE
    /\ svPlist = FALSE
    /\ svUnit = FALSE
    /\ svCron = <<>>
    /\ svCron0 = <<>>
    /\ svFirst = "none"
    /\ svUsed = {}
    /\ svLast = [probe |-> [raised |-> FALSE, rc |-> 0], variant |-> "none"]
    /\ svCmds = {}
    /\ svReported = "none"
    /\ svCalled = FALSE
    /\ svResult = "none"
    /\ svPc = "idle"
    /\ svRuns = 0

InstallIdle ==
    /\ inVariant = "unknown"
    /\ inRegs = [plist |-> FALSE, unit |-> FALSE, marked |-> FALSE]
    /\ inRun = [wrote |-> TRUE, c1 |-> "zero", c2 |-> "zero", c3 |-> "zero"]
    /\ inCmds = {}
    /\ inResult = "none"
    /\ inReported = "none"
    /\ inPc = "idle"

SelfIdle ==
    /\ srFile = [exists |-> FALSE, readable |-> FALSE, plugins |-> {}, writer |-> "none"]
    /\ srBefore = srFile
    /\ srCfg = [install |-> FALSE, update |-> FALSE]
    /\ srRan = {}
    /\ srPc = "start"

HookIdle ==
    /\ ghDoc = [exists |-> FALSE, readable |-> FALSE, other |-> "none", pre |-> FALSE, session |-> <<>>]
    /\ ghDoc0 = ghDoc
    /\ ghPrev = ghDoc
    /\ ghWrote = FALSE
    /\ ghSaid = "none"
    /\ ghCalls = 0

OverlapIdle ==
    /\ ovPc = <<"done", "done">>
    /\ ovTodo = <<{}, {}>>
    /\ ovMem = <<EmptyState, EmptyState>>
    /\ ovFile = NoFile
    /\ ovFile0 = NoFile
    /\ ovAttempts = 0

AuxIdle == StoreIdle /\ WritesIdle /\ RaceIdle /\ DriverIdle /\ UpdIdle /\ SnapIdle /\ RegistryIdle /\ ServiceIdle /\ InstallIdle /\ SelfIdle /\ HookIdle /\ OverlapIdle

CoreInit ==
    /\ now = 0
    /\ snapshot \in SnapshotChoices
    /\ installed \in InstalledChoices
    /\ fs = [p \in Paths |-> NoFile]
    /\ pc = "idle"
    /\ to_install = {}
    /\ remaining = {}
    /\ mem = EmptyState
    /\ updRemaining = {}
    /\ installCalls = {}
    /\ updateCalls = {}
    /\ fails = [u \in RemoteUnits |-> 0]
    /\ firstFailT = [u \in RemoteUnits |-> 0]
    /\ lastAttT = [u \in RemoteUnits |-> 0]
    /\ saveOld = NoFile
    /\ saveNew = NoFile

Init == CoreInit /\ AuxIdle

\* The canonical install-state file.
StateFile == fs[StatePath]

\* The records on disk (no record when the file cannot be read).
Persisted == IF LoadRaises(StateFile) THEN EmptyState ELSE LoadInstallState(StateFile)

\* ------------------------------------------------------------- environment
\* Time passes between two passes.
Tick(d) ==
    /\ pc = "idle"
    /\ now + d <= MaxTime
    /\ now' = now + d
    /\ UNCHANGED <<snapshot, installed, fs, pc, to_install, remaining, mem,
                   updRemaining, installCalls, updateCalls, ghosts, saveOld, saveNew>>
    /\ UNCHANGED aux

\* A remote unit disappears from installed_plugins.json (reset elsewhere).
Uninstall(u) ==
    /\ pc = "idle"
    /\ u \in installed
    /\ HasAt(u)
    /\ installed' = installed \ {u}
    /\ UNCHANGED <<now, snapshot, fs, pc, to_install, remaining, mem,
                   updRemaining, installCalls, updateCalls, ghosts, saveOld, saveNew>>
    /\ UNCHANGED aux

\* The install-state file is rewritten from outside with the records `state`.
EditStateFile(state) ==
    LET f == DocFile(state, ParseTimestamp(StateFile.content))
    IN  /\ fs' = [fs EXCEPT ![StatePath] = f]
        /\ saveOld' = f
        /\ saveNew' = f
    /\ UNCHANGED aux

\* The last_attempt of a failed record becomes unparseable (corrupt data).
CorruptTimestamp(u) ==
    /\ pc = "idle"
    /\ ~LoadRaises(StateFile)
    /\ u \in DOMAIN Persisted
    /\ Persisted[u].status = "failed"
    /\ Persisted[u].last_attempt.ok
    /\ EditStateFile([Persisted EXCEPT ![u].last_attempt = BadTimestamp])
    /\ UNCHANGED <<now, snapshot, installed, pc, to_install, remaining, mem,
                   updRemaining, installCalls, updateCalls, ghosts>>
    /\ UNCHANGED aux

\* An operator resets an abandoned unit by deleting its record.
ManualReset(u) ==
    /\ pc = "idle"
    /\ ~LoadRaises(StateFile)
    /\ u \in DOMAIN Persisted
    /\ Persisted[u].status = "failed"
    /\ Persisted[u].retry_count > MAX_RETRY_COUNT
    /\ EditStateFile(Remove(Persisted, u))
    /\ fails' = [fails EXCEPT ![u] = 0]
    /\ firstFailT' = [firstFailT EXCEPT ![u] = 0]
    /\ lastAttT' = [lastAttT EXCEPT ![u] = 0]
    /\ UNCHANGED <<now, snapshot, installed, pc, to_install, remaining, mem,
                   updRemaining, installCalls, updateCalls>>
    /\ UNCHANGED aux

\* ------------------------------------------------------------------ a pass
\* main up to check_missing_plugins: the pass starts and selects the units
\* to install.  A state file json.loads rejects ends the pass ("Fatal error").
StartPass ==
    /\ pc = "idle"
    /\ installCalls' = {}
    /\ updateCalls' = {}
    /\ IF snapshot # {} /\ LoadRaises(StateFile)
       THEN /\ pc' = "fatal"
            /\ to_install' = {}
       ELSE /\ pc' = "checked"
            /\ to_install' = ToInstall(snapshot, installed, LoadInstallState(StateFile), now)
    /\ saveOld' = StateFile
    /\ saveNew' = StateFile
    /\ UNCHANGED <<now, snapshot, installed, fs, remaining, mem, updRemaining,
                   ghosts>>
    /\ UNCHANGED aux

\* install_missing_plugins after the check: nothing to do, or load the state
\* again and enter the loop.
BeginInstall ==
    /\ pc = "checked"
    /\ IF to_install = {}
       THEN /\ pc' = "update"
            /\ UNCHANGED <<remaining, mem>>
       ELSE /\ pc' = "installing"
            /\ remaining' = to_install
            /\ mem' = LoadInstallState(StateFile)
    /\ UNCHANGED <<now, snapshot, installed, fs, to_install, updRemaining,
                   installCalls, updateCalls, ghosts, saveOld, saveNew>>
    /\ UNCHANGED aux

\* Mutant: a unit whose install failed stays in the loop of the same pass.
RemainingAfterRetrying(rem, u, success) == IF success THEN rem \ {u} ELSE rem

\* for plugin_name in to_install: the loop moves on to the next name whatever
\* install_plugin returned.
RemainingAfter(rem, u, success) == rem \ {u}

\* One iteration of the install loop; after the last one save_install_state
\* begins.  A successful "claude plugin install" makes the unit appear in
\* installed_plugins.json.  The attempt is stamped with the clock value read
\* before the loop (line 280), the same for every unit of the pass.
InstallOne(u, outcome) ==
    /\ pc = "installing"
    /\ u \in remaining
    /\ fails[u] < MaxFails
    /\ LET success == InstallPlugin(u, outcome)
           first == ~(u \in DOMAIN mem /\ mem[u].status = "failed")
           mem2 == RecordResult(mem, u, success, now)
       IN  /\ mem' = mem2
           /\ installed' = IF success THEN installed \cup {u} ELSE installed
           /\ installCalls' = IF ValidName(u) THEN installCalls \cup {u} ELSE installCalls
           /\ fails' = [fails EXCEPT ![u] = IF success THEN 0 ELSE @ + 1]
           /\ firstFailT' = [firstFailT EXCEPT ![u] =
                               IF success THEN 0 ELSE IF fails[u] = 0 THEN now ELSE @]
           /\ lastAttT' = [lastAttT EXCEPT ![u] = now]
           /\ remaining' = RemainingAfter(remaining, u, success)
           /\ IF RemainingAfter(remaining, u, success) = {}
              THEN /\ pc' = "save_open"
                   /\ saveOld' = StateFile
                   /\ saveNew' = DocFile(mem2, now)
              ELSE /\ pc' = "installing"
                   /\ UNCHANGED <<saveOld, saveNew>>
    /\ UNCHANGED <<now, snapshot, fs, to_install, updRemaining, updateCalls>>
    /\ UNCHANGED aux

\* save_install_state: open the temporary file for writing (truncates it).
SaveOpenTemp ==
    /\ pc = "save_open"
    /\ fs' = [fs EXCEPT ![TempPathOf(StatePath)] = [exists |-> TRUE, content |-> <<>>]]
    /\ pc' = "save_write"
    /\ UNCHANGED <<now, snapshot, installed, to_install, remaining, mem,
                   updRemaining, installCalls, updateCalls, ghosts, saveOld, saveNew>>
    /\ UNCHANGED aux

\* save_install_state: the next piece of the document reaches the file.
SaveWrite ==
    /\ pc = "save_write"
    /\ LET tmp == TempPathOf(StatePath)
           doc == Serialize(mem, now)
           n == Len(fs[tmp].content)
       IN  /\ n < Len(doc)
           /\ fs' = [fs EXCEPT ![tmp].content = Append(@, doc[n + 1])]
           /\ pc' = IF n + 1 = Len(doc) THEN "save_rename" ELSE "save_write"
    /\ UNCHANGED <<now, snapshot, installed, to_install, remaining, mem,
                   updRemaining, installCalls, updateCalls, ghosts, saveOld, saveNew>>
    /\ UNCHANGED aux

\* save_install_state: temp_file.rename(LAST_INSTALL_STATE)
SaveRename ==
    /\ pc = "save_rename"
    /\ LET tmp == TempPathOf(StatePath)
       IN  fs' = IF tmp = StatePath
                 THEN fs
                 ELSE [fs EXCEPT ![StatePath] = fs[tmp], ![tmp] = NoFile]
    /\ pc' = "update"
    /\ saveOld' = saveNew
    /\ UNCHANGED <<now, snapshot, installed, to_install, remaining, mem,
                   updRemaining, installCalls, updateCalls, ghosts, saveNew>>
    /\ UNCHANGED aux

\* main step 4: should_update (or --force-update) decides; update_all_plugins
\* returns early without plugins or when plugin management is unavailable.
UpdateDecide(go, available) ==
    /\ pc = "update"
    /\ IF go /\ installed # {} /\ available /\ RemotePlugins(installed) # {}
       THEN /\ pc' = "updating"
            /\ updRemaining' = RemotePlugins(installed)
       ELSE /\ pc' = "done"
            /\ UNCHANGED updRemaining
    /\ UNCHANGED <<now, snapshot, installed, fs, to_install, remaining, mem,
                   installCalls, updateCalls, ghosts, saveOld, saveNew>>
    /\ UNCHANGED aux

\* _update_single_plugin for one remote plugin.
UpdateOne(u, first) ==
    /\ pc = "updating"
    /\ u \in updRemaining
    /\ updateCalls' = updateCalls \cup UpdateArgs(u, first)
    /\ updRemaining' = updRemaining \ {u}
    /\ pc' = IF updRemaining \ {u} = {} THEN "done" ELSE "updating"
    /\ UNCHANGED <<now, snapshot, installed, fs, to_install, remaining, mem,
                   installCalls, ghosts, saveOld, saveNew>>
    /\ UNCHANGED aux

\* The pass ends ("Auto-Manager Finished", or exit after a fatal error).
EndPass ==
    /\ pc \in {"done", "fatal"}
    /\ pc' = "idle"
    /\ to_install' = {}
    /\ remaining' = {}
    /\ mem' = EmptyState
    /\ updRemaining' = {}
    /\ installCalls' = {}
    /\ updateCalls' = {}
    /\ UNCHANGED <<now, snapshot, installed, fs, ghosts, saveOld, saveNew>>
    /\ UNCHANGED aux

\* The process dies inside save_install_state; what it held in memory is
\* lost, the files stay as they are.  The attempts of the pass left no
\* record, so the counters of failed attempts restart from the disk.
Crash ==
    /\ pc \in {"save_open", "save_write", "save_rename"}
    /\ pc' = "idle"
    /\ to_install' = {}
    /\ remaining' = {}
    /\ mem' = EmptyState
    /\ updRemaining' = {}
    /\ installCalls' = {}
    /\ updateCalls' = {}
    /\ fails' = [u \in RemoteUnits |->
                    IF HasFailed(Persisted, u) THEN Persisted[u].retry_count ELSE 0]
    /\ firstFailT' = [u \in RemoteUnits |->
                    IF HasFailed(Persisted, u) THEN Persisted[u].first_failed_at.t ELSE 0]
    /\ lastAttT' = [u \in RemoteUnits |->
                    IF u \in DOMAIN Persisted THEN Persisted[u].last_attempt.t ELSE 0]
    /\ UNCHANGED <<now, snapshot, installed, fs, saveOld, saveNew>>
    /\ UNCHANGED aux

Environment ==
    \/ \E d \in TickSteps : Tick(d)
    \/ \E u \in Units : Uninstall(u)
    \/ \E u \in Units : CorruptTimestamp(u)
    \/ \E u \in Units : ManualReset(u)

Pass ==
    \/ StartPass
    \/ BeginInstall
    \/ \E u \in Units, outcome \in InstallOutcomes : InstallOne(u, outcome)
    \/ SaveOpenTemp
    \/ SaveWrite
    \/ SaveRename
    \/ \E go \in BOOLEAN, available \in BOOLEAN : UpdateDecide(go, available)
    \/ \E u \in Units, first \in UpdateOutcomes : UpdateOne(u, first)
    \/ EndPass

Next == Environment \/ Pass

\* Non-overlapping passes that run to completion.
Spec == Init /\ [][Next]_vars

NextCrash == Next \/ Crash

\* The same, with the process allowed to die inside save_install_state.
InitCrash == Init /\ snapshot = {Beta} /\ installed = {LocalBeta}

SpecCrash == InitCrash /\ [][NextCrash]_vars

\* ------------------------------------------------------------------ claims
\* The install-state file reflects every attempt made so far: no pass is
\* between its first attempt and the rename of its save.
Settled == pc \notin {"installing", "save_open", "save_write", "save_rename"}

\* Unit u is listed in the snapshot, remote, and absent from the installed set.
IsMissing(u) == u \in snapshot /\ HasAt(u) /\ u \notin installed

\* C1: right after check_missing_plugins, every remote snapshot unit that is
\* not installed and has no record, or an 'installed' record, is selected;
\* nothing installed and nothing outside the snapshot is selected; with
\* snapshot {alpha@src1, beta@src2, ...}, installed {alpha@src1} and no
\* record, exactly beta@src2 is selected.
C1_SelectsMissing ==
    pc = "checked" =>
        /\ \A u \in Units :
              (IsMissing(u) /\ (u \notin DOMAIN Persisted \/ Persisted[u].status = "installed"))
                  => u \in to_install
        /\ \A u \in to_install : u \in snapshot /\ u \notin installed
        /\ (installed = {Alpha} /\ {Alpha, Beta} \subseteq snapshot /\ Persisted = EmptyState)
              => to_install = {Beta}

C1_Witness ==
    /\ pc = "checked"
    /\ snapshot = Units
    /\ installed = {Alpha}
    /\ Persisted = EmptyState
    /\ to_install = {Beta}

\* C2: no local unit (identifier without '@') known to this machine is ever
\* passed to "claude plugin install" or to "claude plugin update".
C2_LocalNeverPassed ==
    \A u \in snapshot \cup installed :
        ~HasAt(u) => (u \notin installCalls /\ u \notin updateCalls)

\* C3: a missing remote unit with a failed record, a parseable last_attempt
\* and retry_count in 1..5 is selected exactly when at least
\* RETRY_INTERVAL_SECONDS have elapsed since last_attempt.
C3_RetryAfterInterval ==
    pc = "checked" =>
        \A u \in Units :
            (/\ IsMissing(u)
             /\ HasFailed(Persisted, u)
             /\ Persisted[u].last_attempt.ok
             /\ Persisted[u].retry_count \in 1..MAX_RETRY_COUNT)
            => (u \in to_install <=> now - Persisted[u].last_attempt.t >= 600)

C3_Witness ==
    /\ pc = "checked"
    /\ IsMissing(Beta)
    /\ HasFailed(Persisted, Beta)
    /\ Persisted[Beta].last_attempt.ok
    /\ Persisted[Beta].retry_count = MAX_RETRY_COUNT
    /\ now - Persisted[Beta].last_attempt.t = 600
    /\ Beta \in to_install

\* C4: a unit whose failed record has retry_count > MAX_RETRY_COUNT when a
\* pass checks it is not selected and not attempted by that pass, whatever
\* the elapsed time and whether or not its last_attempt parses.
C4_AbandonedNeverSelected ==
    \A u \in Units :
        (/\ pc \in {"checked", "installing"}
         /\ HasFailed(Persisted, u)
         /\ Persisted[u].retry_count > MAX_RETRY_COUNT)
        => (u \notin to_install /\ u \notin remaining /\ u \notin installCalls)

C4_Witness ==
    /\ pc = "checked"
    /\ IsMissing(Beta)
    /\ HasUnparseableFailure(Persisted, Beta)
    /\ Persisted[Beta].retry_count = MAX_RETRY_COUNT + 1
    /\ now >= 600
    /\ Beta \notin to_install

\* The record of an abandoned unit as it is on disk.
AbandonedOnDisk(u) ==
    HasFailed(Persisted, u) /\ Persisted[u].retry_count = MAX_RETRY_COUNT + 1

\* C5: while every attempt of a unit fails, the unit is attempted at most
\* MAX_RETRY_COUNT + 1 = 6 times; after the sixth failure the record on disk
\* is 'failed' with retry_count 6, and no step of a pass changes it.
C5_AtMostSixAttempts ==
    /\ [](\A u \in RemoteUnits :
             /\ fails[u] <= MAX_RETRY_COUNT + 1
             /\ (Settled /\ fails[u] = MAX_RETRY_COUNT + 1) => AbandonedOnDisk(u))
    /\ [][\A u \in RemoteUnits :
             (AbandonedOnDisk(u) /\ ~(pc = "idle" /\ pc' = "idle"))
                 => (u \in DOMAIN Persisted' /\ Persisted'[u] = Persisted[u])]_vars

C5_Witness ==
    /\ pc = "checked"
    /\ fails[Beta] = 6
    /\ IsMissing(Beta)
    /\ AbandonedOnDisk(Beta)
    /\ Persisted[Beta].last_attempt.ok
    /\ now - Persisted[Beta].last_attempt.t >= 600
    /\ Beta \notin to_install

\* C6: after the failure of a unit that had no record, or a record that was
\* not 'failed', the record on disk is 'failed' with retry_count 1 and
\* first_failed_at = last_attempt = the clock value of that pass.
C6_FirstFailure ==
    \A u \in RemoteUnits :
        (Settled /\ fails[u] = 1) =>
            /\ HasFailed(Persisted, u)
            /\ Persisted[u].retry_count = 1
            /\ firstFailT[u] = lastAttT[u]
            /\ Persisted[u].first_failed_at = IsoFormat(lastAttT[u])
            /\ Persisted[u].last_attempt.ok
                   => Persisted[u] = FirstFailedRecord(lastAttT[u])

C6_Witness ==
    /\ pc = "update"
    /\ fails[Beta] = 1
    /\ lastAttT[Beta] = 600
    /\ now = 600
    /\ Beta \in DOMAIN Persisted
    /\ Persisted[Beta] = FirstFailedRecord(600)

\* C7: after k consecutive failures the record has retry_count k, last_attempt
\* the time of the latest attempt and first_failed_at the time of the first
\* failure; and a pass started at least 600 s after the previous attempt
\* attempts the unit again.
C7_ConsecutiveFailures ==
    \A u \in RemoteUnits :
        /\ (Settled /\ fails[u] >= 1) =>
              /\ HasFailed(Persisted, u)
              /\ Persisted[u].retry_count = fails[u]
              /\ Persisted[u].first_failed_at = IsoFormat(firstFailT[u])
              /\ Persisted[u].last_attempt.ok
                     => Persisted[u].last_attempt = IsoFormat(lastAttT[u])
        /\ (/\ pc = "checked"
            /\ IsMissing(u)
            /\ fails[u] \in 1..MAX_RETRY_COUNT
            /\ HasFailed(Persisted, u)
            /\ Persisted[u].last_attempt.ok
            /\ now - lastAttT[u] >= 600) => u \in to_install

C7_Witness ==
    /\ pc = "update"
    /\ fails[Beta] = 3
    /\ firstFailT[Beta] = 0
    /\ lastAttT[Beta] = 1200
    /\ HasFailed(Persisted, Beta)
    /\ Persisted[Beta].retry_count = 3
    /\ Persisted[Beta].last_attempt = IsoFormat(1200)
    /\ Persisted[Beta].first_failed_at = IsoFormat(0)

\* C8: every 'installed' record on disk has retry_count 0, and a successful
\* attempt leaves exactly {status: installed, last_attempt: now,
\* retry_count: 0}, without first_failed_at, whatever the record was before.
C8_InstalledImpliesZero ==
    /\ \A u \in DOMAIN Persisted :
          Persisted[u].status = "installed" => Persisted[u].retry_count = 0
    /\ \A u \in RemoteUnits :
          (Settled /\ u \in DOMAIN Persisted /\ fails[u] = 0)
              => Persisted[u] = InstalledRecord(lastAttT[u])

C8_Witness ==
    /\ pc = "save_rename"
    /\ HasFailed(Persisted, Beta)
    /\ Persisted[Beta].retry_count = MAX_RETRY_COUNT
    /\ WellFormed(fs[TmpPath].content)
    /\ ParsePlugins(fs[TmpPath].content)[Beta] = InstalledRecord(now)

\* C9: a missing remote unit with a failed record, retry_count <= 5 and an
\* unparseable last_attempt is selected in the current pass; the pass goes on.
C9_FailOpen ==
    \A u \in Units :
        (/\ pc \in {"checked", "fatal"}
         /\ IsMissing(u)
         /\ HasUnparseableFailure(Persisted, u)
         /\ Persisted[u].retry_count <= MAX_RETRY_COUNT)
        => (pc = "checked" /\ u \in to_install)

C9_Witness ==
    /\ pc = "checked"
    /\ IsMissing(Beta)
    /\ HasUnparseableFailure(Persisted, Beta)
    /\ Persisted[Beta].retry_count = 2
    /\ Beta \in to_install

\* C10: whenever the process may die inside save_install_state, and after it
\* died, the canonical file is the complete document it held when the save
\* began or the complete new document, never a truncated one.
C10_AtomicSave ==
    /\ StateFile \in {saveOld, saveNew}
    /\ ~LoadRaises(StateFile)

C10_Witness ==
    /\ pc = "idle"
    /\ fs[TmpPath].exists
    /\ Len(fs[TmpPath].content) \in 1..(Len(saveNew.content) - 1)
    /\ saveOld.exists
    /\ saveOld # saveNew
    /\ StateFile = saveOld

\* C20: within a pass the install command is issued at most once per unit:
\* a unit that was attempted, successfully or not (non-zero exit and timeout
\* alike), has left the loop and has a record stamped with this pass's time.
C20_InstallAtMostOnce ==
    pc = "installing" =>
        /\ installCalls \cap remaining = {}
        /\ installCalls \subseteq to_install
        /\ \A u \in installCalls :
              /\ u \in DOMAIN mem
              /\ mem[u].last_attempt = IsoFormat(now)
              /\ u \notin installed => mem[u].status = "failed"

\* An install failed in this pass, was recorded, and the loop has moved on
\* to another unit.
C20_Witness ==
    /\ pc = "installing"
    /\ remaining # {}
    /\ \E u \in installCalls :
          /\ u \notin installed
          /\ u \notin remaining
          /\ mem[u].status = "failed"
          /\ mem[u].last_attempt = IsoFormat(now)

\* ============================================ save and load of the records
\* The rest of the machine stands still while one of the small
\* specifications below runs.
CoreFixed == CoreInit /\ snapshot = {Beta} /\ installed = {LocalBeta}

\* Largest retry_count a record of the round trip holds.
MaxRecordedRetry == MAX_RETRY_COUNT + 1

\* last_attempt values of the records of the round trip.
RecordStamps == {IsoFormat(RETRY_INTERVAL_SECONDS), BadTimestamp}

\* Records as install_missing_plugins writes them and as a hand may edit them:
\* either status, any retry_count, with and without first_failed_at.
RecordsWithoutFirst ==
    [status : {"installed", "failed"}, last_attempt : RecordStamps,
     retry_count : 0..MaxRecordedRetry]

RecordsWithFirst ==
    [status : {"installed", "failed"}, last_attempt : RecordStamps,
     retry_count : 0..MaxRecordedRetry, first_failed_at : {IsoFormat(0)}]

\* Units whose records the round trip saves.
StoreUnits == {Alpha, LocalBeta}

\* The dicts handed to save_install_state.
RecordSets ==
    UNION {[D -> RecordsWithoutFirst \cup RecordsWithFirst] : D \in SUBSET StoreUnits}

\* "plugins" lists of legacy documents (an identifier may be listed twice).
LegacyLists == {<<>>, <<Alpha>>, <<Alpha, Beta>>, <<Beta, Alpha, Beta>>}

\* Legacy documents {"plugins": [...], "timestamp": ...}, the timestamp
\* present (well-formed or not) or missing.
LegacyDoc(items, stamped, stamp) ==
    <<[tok |-> "open"], [tok |-> "list", items |-> items]>>
    \o (IF stamped THEN <<[tok |-> "timestamp", val |-> stamp]>> ELSE <<>>)
    \o <<[tok |-> "close"]>>

LegacyStamps == {IsoFormat(0), IsoFormat(RETRY_INTERVAL_SECONDS), BadTimestamp}

LegacyFiles ==
    {[exists |-> TRUE, content |-> LegacyDoc(l, b, st)] :
        l \in LegacyLists, b \in BOOLEAN, st \in LegacyStamps}

InitStore ==
    /\ CoreFixed
    /\ OverlapIdle
    /\ HookIdle
    /\ SelfIdle
    /\ InstallIdle
    /\ ServiceIdle
    /\ RegistryIdle
    /\ SnapIdle
    /\ rtOut = EmptyState
    /\ WritesIdle
    /\ RaceIdle
    /\ DriverIdle
    /\ UpdIdle
    /\ \/ rtPc = "start" /\ rtIn \in RecordSets /\ rtFile = NoFile
       \/ rtPc = "legacy" /\ rtIn = EmptyState /\ rtFile \in LegacyFiles

\* save_install_state(state)
StoreSave ==
    /\ rtPc = "start"
    /\ rtFile' = DocFile(rtIn, now)
    /\ rtPc' = "saved"
    /\ UNCHANGED <<core, overlapVars, hookVars, selfVars, installVars, serviceVars, registryVars, snapVars, writeVars, raceVars, driverVars, updVars, rtIn, rtOut>>

\* load_install_state()
StoreLoad ==
    /\ rtPc \in {"saved", "legacy"}
    /\ ~LoadRaises(rtFile)
    /\ rtOut' = LoadInstallState(rtFile)
    /\ rtPc' = "loaded"
    /\ UNCHANGED <<core, overlapVars, hookVars, selfVars, installVars, serviceVars, registryVars, snapVars, writeVars, raceVars, driverVars, updVars, rtIn, rtFile>>

NextStore == StoreSave \/ StoreLoad

SpecStore == InitStore /\ [][NextStore]_vars

\* C13: loading a saved set of records yields that same set, whatever mix of
\* installed and failed records, retry counts 0..6 and first_failed_at
\* fields it holds.
C13_RoundTrip ==
    (rtPc = "loaded" /\ ~IsLegacy(rtFile.content)) => rtOut = rtIn

\* A set with an abandoned failed record and an installed record was loaded.
C13_Witness ==
    /\ rtPc = "loaded"
    /\ ~IsLegacy(rtFile.content)
    /\ DOMAIN rtIn = StoreUnits
    /\ rtIn[Alpha].status = "failed"
    /\ rtIn[Alpha].retry_count = MaxRecordedRetry
    /\ "first_failed_at" \in DOMAIN rtIn[Alpha]
    /\ rtIn[LocalBeta].status = "installed"
    /\ "first_failed_at" \notin DOMAIN rtIn[LocalBeta]

\* C14: a legacy document loads to exactly one record per listed
\* identifier, each installed with retry_count 0 and last_attempt equal to
\* the document's timestamp.
C14_LegacyLoad ==
    (rtPc = "loaded" /\ IsLegacy(rtFile.content)) =>
        /\ DOMAIN rtOut = LegacyPlugins(rtFile.content)
        /\ \A u \in DOMAIN rtOut :
              /\ DOMAIN rtOut[u] = {"status", "last_attempt", "retry_count"}
              /\ rtOut[u].status = "installed"
              /\ rtOut[u].retry_count = 0
              /\ rtOut[u].last_attempt = TimestampField(rtFile.content)

\* A legacy list naming a unit twice, with a timestamp, was loaded.
C14_Witness ==
    /\ rtPc = "loaded"
    /\ rtFile.content = LegacyDoc(<<Beta, Alpha, Beta>>, TRUE, IsoFormat(RETRY_INTERVAL_SECONDS))
    /\ DOMAIN rtOut = {Alpha, Beta}

\* ================================================ writes of the shared files
\* Versions of a shared file.
Versions == {"v1", "v2"}

\* The serialised text of version v of a shared file, piece by piece.
Document(v) == <<[tok |-> "open"], [tok |-> "body", val |-> v], [tok |-> "close"]>>

WholeDocuments == {Document(v) : v \in Versions}

\* The path each writer opens for writing: save_install_state,
\* sync_marketplaces_from_snapshot, install_launchagent and
\* install_systemd_service open the temporary sibling; create_snapshot
\* opens current.json itself.
WriteTarget(f) == IF f = <<"current.json">> THEN f ELSE Sibling(f)

\* One shared file is followed at a time; it is absent or holds a whole
\* document when its writers start.
InitWrites ==
    /\ CoreFixed
    /\ OverlapIdle
    /\ HookIdle
    /\ SelfIdle
    /\ InstallIdle
    /\ ServiceIdle
    /\ RegistryIdle
    /\ SnapIdle
    /\ StoreIdle
    /\ RaceIdle
    /\ DriverIdle
    /\ UpdIdle
    /\ wpc = "idle"
    /\ wdoc = <<>>
    /\ wfile \in SharedFiles
    /\ \E old \in {NoFile} \cup {[exists |-> TRUE, content |-> d] : d \in WholeDocuments} :
          disk = [p \in WritePaths |-> IF p = wfile THEN old ELSE NoFile]

\* open(target, "w"): the target exists and is empty.
WriteOpen(v) ==
    /\ wpc = "idle"
    /\ disk' = [disk EXCEPT ![WriteTarget(wfile)] = [exists |-> TRUE, content |-> <<>>]]
    /\ wpc' = "writing"
    /\ wdoc' = Document(v)
    /\ UNCHANGED <<core, overlapVars, hookVars, selfVars, installVars, serviceVars, registryVars, snapVars, storeVars, raceVars, driverVars, updVars, wfile>>

\* write(): the next piece reaches the target; after the last piece the
\* writer renames (temporary sibling) or is done (in-place write).
WriteChunk ==
    /\ wpc = "writing"
    /\ LET t == WriteTarget(wfile)
           n == Len(disk[t].content)
       IN  /\ disk' = [disk EXCEPT ![t].content = Append(@, wdoc[n + 1])]
           /\ wpc' = IF n + 1 < Len(wdoc) THEN "writing"
                     ELSE IF t = wfile THEN "idle" ELSE "rename"
    /\ UNCHANGED <<core, overlapVars, hookVars, selfVars, installVars, serviceVars, registryVars, snapVars, storeVars, raceVars, driverVars, updVars, wfile, wdoc>>

\* temp_file.rename(canonical)
WriteRename ==
    /\ wpc = "rename"
    /\ disk' = [disk EXCEPT ![wfile] = disk[WriteTarget(wfile)],
                              ![WriteTarget(wfile)] = NoFile]
    /\ wpc' = "idle"
    /\ UNCHANGED <<core, overlapVars, hookVars, selfVars, installVars, serviceVars, registryVars, snapVars, storeVars, raceVars, driverVars, updVars, wfile, wdoc>>

\* The writing process dies between two steps.
WriteCrash ==
    /\ wpc \in {"writing", "rename"}
    /\ wpc' = "idle"
    /\ UNCHANGED <<core, overlapVars, hookVars, selfVars, installVars, serviceVars, registryVars, snapVars, storeVars, raceVars, driverVars, updVars, disk, wfile, wdoc>>

NextWrites ==
    \/ \E v \in Versions : WriteOpen(v)
    \/ WriteChunk
    \/ WriteRename
    \/ WriteCrash

SpecWrites == InitWrites /\ [][NextWrites]_vars

\* C11: every shared file is written to a temporary sibling and renamed
\* into place, so at every step each canonical file is absent or holds a
\* whole document.
C11_CanonicalAlwaysWhole ==
    \A f \in SharedFiles : disk[f].exists => disk[f].content \in WholeDocuments

\* ======================================= two processes saving at the same time
\* The dict each process saves.
RaceState(p) ==
    IF p = "A" THEN Put(EmptyState, Alpha, InstalledRecord(0))
    ELSE Put(EmptyState, Beta, FirstFailedRecord(0))

\* json.dumps(state_data) of process p.
RaceDoc(p) == Serialize(RaceState(p), 0)

\* A byte range no process wrote (a write past the end of a truncated file).
Hole == [tok |-> "hole"]

\* write() of one piece at position k + 1 of content c.
WriteAt(c, k, piece) ==
    [i \in 1..(IF Len(c) > k + 1 THEN Len(c) ELSE k + 1) |->
        IF i = k + 1 THEN piece ELSE IF i <= Len(c) THEN c[i] ELSE Hole]

InitRace ==
    /\ CoreFixed
    /\ OverlapIdle
    /\ HookIdle
    /\ SelfIdle
    /\ InstallIdle
    /\ ServiceIdle
    /\ RegistryIdle
    /\ SnapIdle
    /\ StoreIdle
    /\ WritesIdle
    /\ DriverIdle
    /\ UpdIdle
    /\ rnames = [n \in Paths |-> "none"]
    /\ rinodes = [i \in Savers |-> <<>>]
    /\ rproc = [p \in Savers |-> [pc |-> "start", fd |-> "none", off |-> 0]]
    /\ lastRenamer = "none"

\* temp_file.write_text: open(temp_file, "w") creates the file or truncates
\* the one that has the name.
RaceOpen(p) ==
    /\ rproc[p].pc = "start"
    /\ LET i == IF rnames[TempPathOf(StatePath)] = "none" THEN p
                ELSE rnames[TempPathOf(StatePath)]
       IN  /\ rnames' = [rnames EXCEPT ![TempPathOf(StatePath)] = i]
           /\ rinodes' = [rinodes EXCEPT ![i] = <<>>]
           /\ rproc' = [rproc EXCEPT ![p] = [pc |-> "writing", fd |-> i, off |-> 0]]
    /\ UNCHANGED <<core, overlapVars, hookVars, selfVars, installVars, serviceVars, registryVars, snapVars, storeVars, writeVars, driverVars, updVars, lastRenamer>>

\* temp_file.write_text: the next piece goes to the open file at the
\* position of this process.
RaceWrite(p) ==
    /\ rproc[p].pc = "writing"
    /\ LET k == rproc[p].off
       IN  /\ rinodes' = [rinodes EXCEPT ![rproc[p].fd] = WriteAt(@, k, RaceDoc(p)[k + 1])]
           /\ rproc' = [rproc EXCEPT ![p].off = k + 1,
                                      ![p].pc = IF k + 1 = Len(RaceDoc(p))
                                                THEN "rename" ELSE "writing"]
    /\ UNCHANGED <<core, overlapVars, hookVars, selfVars, installVars, serviceVars, registryVars, snapVars, storeVars, writeVars, driverVars, updVars, rnames, lastRenamer>>

\* temp_file.rename(LAST_INSTALL_STATE): FileNotFoundError when the
\* temporary name is gone.
RaceRename(p) ==
    /\ rproc[p].pc = "rename"
    /\ IF rnames[TempPathOf(StatePath)] = "none"
       THEN /\ rproc' = [rproc EXCEPT ![p].pc = "error"]
            /\ UNCHANGED <<rnames, lastRenamer>>
       ELSE /\ rnames' = [rnames EXCEPT ![StatePath] = rnames[TempPathOf(StatePath)],
                                        ![TempPathOf(StatePath)] = "none"]
            /\ rproc' = [rproc EXCEPT ![p].pc = "done"]
            /\ lastRenamer' = p
    /\ UNCHANGED <<core, overlapVars, hookVars, selfVars, installVars, serviceVars, registryVars, snapVars, storeVars, writeVars, driverVars, updVars, rinodes>>

NextRace == \E p \in Savers : RaceOpen(p) \/ RaceWrite(p) \/ RaceRename(p)

SpecRace == InitRace /\ [][NextRace]_vars

\* The canonical install-state file as a reader finds it.
RaceCanonical ==
    IF rnames[StatePath] = "none" THEN NoFile
    ELSE [exists |-> TRUE, content |-> rinodes[rnames[StatePath]]]

\* C12: whatever the interleaving of two concurrent saves, neither save
\* raises, and once both have ended the canonical file is the whole document
\* of the process that renamed last.
C12_ConcurrentSaves ==
    /\ \A p \in Savers : rproc[p].pc # "error"
    /\ (\A p \in Savers : rproc[p].pc = "done") =>
           RaceCanonical = DocFile(RaceState(lastRenamer), 0)

\* ================================================ unreadable install-state
\* The text of the install-state file stops being valid JSON (cut short by
\* a full disk, an editor, or another writer) while no pass runs.
CorruptStateFile ==
    /\ pc = "idle"
    /\ ~LoadRaises(StateFile)
    /\ fs' = [fs EXCEPT ![StatePath] = [exists |-> TRUE, content |-> <<[tok |-> "open"]>>]]
    /\ UNCHANGED <<now, snapshot, installed, pc, to_install, remaining, mem,
                   updRemaining, installCalls, updateCalls, ghosts, saveOld, saveNew>>
    /\ UNCHANGED aux

NextCorrupt == Next \/ CorruptStateFile

SpecCorrupt == InitCrash /\ [][NextCorrupt]_vars

\* C15: a pass that finds the install-state file unparseable goes on with
\* the empty record set: it selects every missing remote unit and does not
\* abort.
C15_CorruptFallsBack ==
    (LoadRaises(StateFile) /\ pc # "idle") =>
        /\ pc # "fatal"
        /\ pc = "checked" => to_install = Missing(snapshot, installed)

\* ============================================================ the driver
RECENT_RUN_THRESHOLD_SECONDS == 300

\* timedelta(hours=1).total_seconds()
SecondsPerHour == 3600

\* Number of clock advances of a run of the driver.
MaxTicks == 2

\* Amounts by which the clock advances between two passes of the driver.
DriverTickSteps ==
    {RECENT_RUN_THRESHOLD_SECONDS - 1, RECENT_RUN_THRESHOLD_SECONDS,
     DefaultIntervalHours * SecondsPerHour}

\* config["auto_update"] values a pass may load.
Configs ==
    {DefaultConfig, [enabled |-> TRUE, interval_hours |-> 0],
     [enabled |-> FALSE, interval_hours |-> DefaultIntervalHours]}

\* The steps of main after the cooldown guard, in order.
DriverSteps == <<"pull", "config", "registry", "install", "rules", "skills",
                 "update", "publish">>

StepSet == {DriverSteps[i] : i \in 1..Len(DriverSteps)}

\* The step after a step; "exit" after the last.
NextStep(step) ==
    LET i == CHOOSE j \in 1..Len(DriverSteps) : DriverSteps[j] = step
    IN  IF i = Len(DriverSteps) THEN "exit" ELSE DriverSteps[i + 1]

\* What can go wrong in a step: "command" is an external command that exits
\* non-zero or times out, "input" a file the step reads that cannot be parsed.
StepFailures(step) ==
    IF step = "pull" THEN {"command"}
    ELSE IF step \in {"config", "rules", "skills"} THEN {"input"}
    ELSE {"command", "input"}

\* The failure is caught inside the step's function (try/except around it).
Catches(step, kind) ==
    IF step = "config" THEN FALSE
    ELSE IF step \in {"install", "update"} THEN kind = "command"
    ELSE TRUE

\* is_in_claude_session()
IsInClaudeSession == inSession

\* should_update(config)
ShouldUpdate ==
    IF ~cfg.enabled THEN FALSE
    ELSE IF IsInClaudeSession THEN FALSE
    ELSE IF cfg.interval_hours = 0 THEN TRUE
    ELSE IF ~lastUpdate.exists THEN TRUE
    ELSE now - lastUpdate.t >= cfg.interval_hours * SecondsPerHour

\* The condition of main's update step.
UpdateDue == force \/ ShouldUpdate

\* The cooldown guard of main stops the pass.
CooldownStops ==
    /\ ~force
    /\ lastUpdate.exists
    /\ now - lastUpdate.t < RECENT_RUN_THRESHOLD_SECONDS

\* The core machine without its clock.
passVars == <<snapshot, installed, fs, pc, to_install, remaining, mem,
              updRemaining, installCalls, updateCalls, fails, firstFailT,
              lastAttT, saveOld, saveNew>>

notDriver == <<passVars, storeVars, writeVars, raceVars, updVars, snapVars, registryVars, serviceVars, installVars, selfVars, hookVars, overlapVars>>

InitDriver ==
    /\ CoreFixed
    /\ OverlapIdle
    /\ HookIdle
    /\ SelfIdle
    /\ InstallIdle
    /\ ServiceIdle
    /\ RegistryIdle
    /\ SnapIdle
    /\ StoreIdle
    /\ WritesIdle
    /\ RaceIdle
    /\ DriverIdle
    /\ UpdIdle

\* Time passes between two passes.
DriverTick(d) ==
    /\ dpc = "idle"
    /\ ticks < MaxTicks
    /\ now' = now + d
    /\ ticks' = ticks + 1
    /\ UNCHANGED <<notDriver, dpc, force, inSession, cfg, lastUpdate, ran, invoked,
                   exitCode, lastEnd, near>>

\* A trigger starts the process: main parses its arguments.
DriverStart(f, s, c) ==
    /\ dpc = "idle"
    /\ dpc' = "guard"
    /\ force' = f
    /\ inSession' = s
    /\ cfg' = c
    /\ ran' = {}
    /\ invoked' = {}
    /\ exitCode' = 0
    /\ near' = (lastEnd.exists /\ now - lastEnd.t < RECENT_RUN_THRESHOLD_SECONDS)
    /\ UNCHANGED <<now, notDriver, lastUpdate, lastEnd, ticks>>

\* The cooldown guard.
DriverGuard ==
    /\ dpc = "guard"
    /\ dpc' = IF CooldownStops THEN "exit" ELSE DriverSteps[1]
    /\ UNCHANGED <<now, notDriver, force, inSession, cfg, lastUpdate, ran, invoked,
                   exitCode, lastEnd, near, ticks>>

\* A step of main runs with the given outcome: main goes on to the next
\* step unless the failure escapes the step's function, which ends the
\* process through the handler of __main__ (sys.exit(1)).
StepEnds(step, outcome) ==
    /\ dpc = step
    /\ outcome \in {"ok"} \cup StepFailures(step)
    /\ ran' = ran \cup {step}
    /\ IF outcome # "ok" /\ ~Catches(step, outcome)
       THEN dpc' = "exit" /\ exitCode' = 1
       ELSE dpc' = NextStep(step) /\ UNCHANGED exitCode
    /\ UNCHANGED <<now, notDriver, force, inSession, cfg, lastEnd, near, ticks>>

\* sync_self_repo()
DriverPull(outcome) ==
    /\ StepEnds("pull", outcome)
    /\ UNCHANGED <<invoked, lastUpdate>>

\* config = load_config()
DriverConfig(outcome) ==
    /\ StepEnds("config", outcome)
    /\ UNCHANGED <<invoked, lastUpdate>>

\* sync_marketplaces_from_snapshot(): the listing of an added source is
\* refreshed only outside a session of the tool.
DriverRegistry(outcome) ==
    /\ StepEnds("registry", outcome)
    /\ invoked' = IF outcome # "input" /\ ~IsInClaudeSession
                  THEN invoked \cup {"marketplace_refresh"} ELSE invoked
    /\ UNCHANGED lastUpdate

\* install_missing_plugins()
DriverInstall(outcome) ==
    /\ StepEnds("install", outcome)
    /\ UNCHANGED <<invoked, lastUpdate>>

\* sync_global_rules(config)
DriverRules(outcome) ==
    /\ StepEnds("rules", outcome)
    /\ UNCHANGED <<invoked, lastUpdate>>

\* sync_global_skills(config)
DriverSkills(outcome) ==
    /\ StepEnds("skills", outcome)
    /\ UNCHANGED <<invoked, lastUpdate>>

\* The update step: when due, update_all_marketplaces(), then
\* update_all_plugins() (which reads installed_plugins.json first), then
\* update_timestamp().
DriverUpdate(outcome) ==
    /\ StepEnds("update", outcome)
    /\ IF UpdateDue
       THEN /\ invoked' = invoked \cup {"marketplace_update"}
                          \cup (IF outcome = "input" THEN {} ELSE {"plugin_update"})
            /\ lastUpdate' = IF outcome = "input" THEN lastUpdate
                             ELSE [exists |-> TRUE, t |-> now]
       ELSE /\ outcome = "ok"
            /\ UNCHANGED <<invoked, lastUpdate>>

\* snapshot_has_changes(), create_new_snapshot(), sync_to_git(config)
DriverPublish(outcome) ==
    /\ StepEnds("publish", outcome)
    /\ UNCHANGED <<invoked, lastUpdate>>

\* The process ends.
DriverExit ==
    /\ dpc = "exit"
    /\ dpc' = "idle"
    /\ lastEnd' = IF exitCode = 0 THEN [exists |-> TRUE, t |-> now] ELSE lastEnd
    /\ UNCHANGED <<now, notDriver, force, inSession, cfg, lastUpdate, ran, invoked,
                   exitCode, near, ticks>>

StepOutcomes == {"ok", "command", "input"}

NextDriver ==
    \/ \E d \in DriverTickSteps : DriverTick(d)
    \/ \E f \in BOOLEAN, s \in BOOLEAN, c \in Configs : DriverStart(f, s, c)
    \/ DriverGuard
    \/ \E o \in StepOutcomes : DriverPull(o)
    \/ \E o \in StepOutcomes : DriverConfig(o)
    \/ \E o \in StepOutcomes : DriverRegistry(o)
    \/ \E o \in StepOutcomes : DriverInstall(o)
    \/ \E o \in StepOutcomes : DriverRules(o)
    \/ \E o \in StepOutcomes : DriverSkills(o)
    \/ \E o \in StepOutcomes : DriverUpdate(o)
    \/ \E o \in StepOutcomes : DriverPublish(o)
    \/ DriverExit

SpecDriver == InitDriver /\ [][NextDriver]_vars

\* The pass was stopped by the cooldown guard.
StoppedByCooldown == dpc = "exit" /\ ran = {} /\ exitCode = 0

\* C16: a pass the cooldown guard does not stop runs every step, whatever
\* fails in a step, and exits with code 0.
C16_EveryStepRuns ==
    (dpc = "exit" /\ ~StoppedByCooldown) => (ran = StepSet /\ exitCode = 0)

\* C17: a pass that is not forced and starts less than 300 s after a prior
\* pass completed runs no step, whatever the prior pass did.
C17_CooldownStopsPass ==
    (dpc # "idle" /\ near /\ ~force) => ran = {}

\* C18: a pass that runs inside a session of the tool (CLAUDECODE present)
\* invokes no marketplace refresh, no marketplace update and no plugin
\* update, forced or not.
C18_NoUpdateInSession ==
    (dpc # "idle" /\ inSession) =>
        invoked \cap {"marketplace_refresh", "marketplace_update", "plugin_update"} = {}

\* ====================================================== the update fallback
\* Texts the tool prints, word by word.
NotInstalledText == <<"Error:", "Plugin", "Not", "Installed">>
NetworkErrorText == <<"network", "error">>

Texts == {<<>>, NotInstalledText, NetworkErrorText}

\* Results of one "claude plugin update" call: a timeout, or an exit code
\* with the texts of stdout and stderr.
CallResults ==
    {TimedOut} \cup [timeout : {FALSE}, rc : {0, 1}, out : Texts, err : Texts]

\* str.lower() of a word.
LowerWord(w) ==
    CASE w = "Error:" -> "error:"
      [] w = "Plugin" -> "plugin"
      [] w = "Not" -> "not"
      [] w = "Installed" -> "installed"
      [] OTHER -> w

\* (result.stdout + result.stderr).lower()
CombinedOutput(r) == [i \in 1..Len(r.out \o r.err) |-> LowerWord((r.out \o r.err)[i])]

\* "not installed" in combined_output
ContainsNotInstalled(text) ==
    \E i \in 1..(Len(text) - 1) : text[i] = "not" /\ text[i + 1] = "installed"

\* The condition of the retry with the bare name.
RetryWithBaseName(r) ==
    ~r.timeout /\ r.rc # 0 /\ ContainsNotInstalled(CombinedOutput(r))

\* Mutant: any non-zero exit is retried with the bare name.
UpdateSinglePluginRetryAny(u, r1, r2) ==
    IF r1.timeout THEN [calls |-> <<u>>, ok |-> FALSE]
    ELSE IF r1.rc # 0
    THEN [calls |-> <<u, BaseName(u)>>, ok |-> ~r2.timeout /\ r2.rc = 0]
    ELSE [calls |-> <<u>>, ok |-> r1.rc = 0]

\* _update_single_plugin(plugin_name): the names it passes to the update
\* command, in order, and its return value, for the results r1 of the
\* first call and r2 of the second call (if made).
UpdateSinglePlugin(u, r1, r2) ==
    IF r1.timeout THEN [calls |-> <<u>>, ok |-> FALSE]
    ELSE IF RetryWithBaseName(r1)
    THEN [calls |-> <<u, BaseName(u)>>, ok |-> ~r2.timeout /\ r2.rc = 0]
    ELSE [calls |-> <<u>>, ok |-> r1.rc = 0]

InitUpdate ==
    /\ CoreFixed
    /\ OverlapIdle
    /\ HookIdle
    /\ SelfIdle
    /\ InstallIdle
    /\ ServiceIdle
    /\ RegistryIdle
    /\ SnapIdle
    /\ StoreIdle
    /\ WritesIdle
    /\ RaceIdle
    /\ DriverIdle
    /\ upc = "start"
    /\ uInstalled \in SUBSET Units
    /\ uQueue = {}
    /\ uLog = <<>>
    /\ uSuccess = 0
    /\ uLast = NoUpdateCall

notUpdate == <<core, storeVars, writeVars, raceVars, driverVars, snapVars, registryVars, serviceVars, installVars, selfVars, hookVars, overlapVars>>

\* update_all_plugins up to its loop.
UpdateBegin ==
    /\ upc = "start"
    /\ uQueue' = RemotePlugins(uInstalled)
    /\ upc' = IF RemotePlugins(uInstalled) = {} THEN "done" ELSE "updating"
    /\ UNCHANGED <<notUpdate, uInstalled, uLog, uSuccess, uLast>>

\* One turn of the loop: _update_single_plugin(name), counted if True.
UpdateSingle(u, r1, r2) ==
    /\ upc = "updating"
    /\ u \in uQueue
    /\ LET res == UpdateSinglePlugin(u, r1, r2)
       IN  /\ uLog' = uLog \o res.calls
           /\ uSuccess' = IF res.ok THEN uSuccess + 1 ELSE uSuccess
           /\ uLast' = [unit |-> u, first |-> r1, second |-> r2, calls |-> res.calls,
                        ok |-> res.ok, before |-> uSuccess]
    /\ uQueue' = uQueue \ {u}
    /\ upc' = IF uQueue \ {u} = {} THEN "done" ELSE "updating"
    /\ UNCHANGED <<notUpdate, uInstalled>>

NextUpdate ==
    \/ UpdateBegin
    \/ \E u \in Units, r1 \in CallResults, r2 \in CallResults : UpdateSingle(u, r1, r2)

SpecUpdate == InitUpdate /\ [][NextUpdate]_vars

\* The first call of the latest update exited non-zero and printed
\* "not installed" (in any letter case) on stdout or stderr.
FirstSaidNotInstalled ==
    /\ ~uLast.first.timeout
    /\ uLast.first.rc # 0
    /\ NotInstalledText \in {uLast.first.out, uLast.first.err}

\* C19: an update whose first call exits non-zero with "not installed" in
\* its output is retried exactly once with the bare name, and counts as
\* updated exactly when the retry exits 0; any other first call is not
\* retried, and counts as updated exactly when it exits 0.
C19_UpdateFallback ==
    uLast.unit # <<>> =>
        IF FirstSaidNotInstalled
        THEN /\ uLast.calls = <<uLast.unit, <<uLast.unit[1]>>>>
             /\ uLast.ok = (~uLast.second.timeout /\ uLast.second.rc = 0)
             /\ uSuccess = uLast.before + (IF uLast.ok THEN 1 ELSE 0)
        ELSE /\ uLast.calls = <<uLast.unit>>
             /\ uLast.ok = (~uLast.first.timeout /\ uLast.first.rc = 0)
             /\ uSuccess = uLast.before + (IF uLast.ok THEN 1 ELSE 0)

\* A first call failing with "Not Installed" on stderr was retried with the
\* bare name, the retry exited 0 and the unit was counted as updated.
C19_Witness ==
    /\ uLast.unit = Beta
    /\ uLast.first.rc = 1
    /\ uLast.first.err = NotInstalledText
    /\ uLast.first.out = <<>>
    /\ ~uLast.second.timeout
    /\ uLast.second.rc = 0
    /\ uLast.calls = <<Beta, LocalBeta>>
    /\ uLast.ok
    /\ uSuccess = uLast.before + 1

\* ======================================================= snapshot and publish
\* An identifier with two "@": odd@src1@x
Odd == <<"odd", "src1", "x">>

SnapUnits == {Alpha, Beta, LocalBeta, Odd}

\* What installed_plugins.json may hold for a unit: the version of its first
\* entry, or "empty" for an empty list of entries.
InfoChoices(u) ==
    IF u = Alpha THEN {"1.0", "2.0"}
    ELSE IF u = Beta THEN {"1.0", "empty"}
    ELSE {"1.0"}

\* "plugins" dicts of installed_plugins.json.
InstalledInputs ==
    UNION {{f \in [D -> {"1.0", "2.0", "empty"}] : \A u \in D : f[u] \in InfoChoices(u)} :
              D \in SUBSET SnapUnits}

\* Key sets of "enabledPlugins" in settings.json.
EnabledInputs == {SnapUnits, {Alpha, LocalBeta}}

\* known_marketplaces.json: for each name, whether the entry has a dict
\* "source".
MarketInputs ==
    {<<>>, [n \in {"src1"} |-> TRUE], [n \in {"src1", "src2"} |-> TRUE],
     [n \in {"src1", "src2"} |-> n = "src1"]}

\* plugin_name.split("@") has two non-empty parts: the second is the
\* marketplace, otherwise the marketplace is "unknown".
MarketplaceOf(u) ==
    IF Len(u) # 2 \/ u[1] = "" \/ u[2] = "" THEN "unknown" ELSE u[2]

\* Mutant: every enabled and installed unit is taken, local ones too.
CreateSnapshotAll(enabled, inst, markets) ==
    [exists |-> TRUE,
     plugins |-> [u \in {x \in enabled : x \in DOMAIN inst /\ inst[x] # "empty"} |->
                     [version |-> inst[u], marketplace |-> MarketplaceOf(u)]],
     marketplaces |-> {n \in DOMAIN markets : markets[n]}]

\* create_snapshot(): the document written to current.json.
CreateSnapshot(enabled, inst, markets) ==
    [exists |-> TRUE,
     plugins |-> [u \in {x \in enabled : HasAt(x) /\ x \in DOMAIN inst /\ inst[x] # "empty"} |->
                     [version |-> inst[u], marketplace |-> MarketplaceOf(u)]],
     marketplaces |-> {n \in DOMAIN markets : markets[n]}]

\* Snapshots a machine has published.
PublishedSnapshots ==
    {CreateSnapshot(e, i, m) : e \in EnabledInputs, i \in InstalledInputs, m \in MarketInputs}

\* Mutant: the plugin dicts are compared with their versions.
SnapshotHasChangesVersions(old, inst, markets) ==
    IF ~old.exists THEN TRUE
    ELSE \/ DOMAIN old.plugins # {u \in DOMAIN inst : HasAt(u)}
         \/ \E u \in DOMAIN old.plugins : old.plugins[u].version # inst[u]
         \/ old.marketplaces # DOMAIN markets

\* snapshot_has_changes()
SnapshotHasChanges(old, inst, markets) ==
    IF ~old.exists THEN TRUE
    ELSE \/ DOMAIN old.plugins # {u \in DOMAIN inst : HasAt(u)}
         \/ old.marketplaces # DOMAIN markets

InitSnapshot ==
    /\ CoreFixed
    /\ OverlapIdle
    /\ HookIdle
    /\ SelfIdle
    /\ InstallIdle
    /\ ServiceIdle
    /\ RegistryIdle
    /\ StoreIdle
    /\ WritesIdle
    /\ RaceIdle
    /\ DriverIdle
    /\ UpdIdle
    /\ snPc = "start"
    /\ snOld \in {NoSnapshot} \cup PublishedSnapshots
    /\ snNow = snOld
    /\ snEnabled \in EnabledInputs
    /\ snInstalled \in InstalledInputs
    /\ snMarkets \in MarketInputs
    /\ snChanged = FALSE
    /\ snHas = NotCalled
    /\ snOps = {}

notSnapshot == <<core, storeVars, writeVars, raceVars, driverVars, updVars, registryVars, serviceVars, installVars, selfVars, hookVars, overlapVars>>

\* The install step: the units of succ are installed (installed_count is
\* their number); plugins_changed = installed_count > 0.
SnapInstall(succ) ==
    /\ snPc = "start"
    /\ succ \subseteq (IF snOld.exists THEN Missing(DOMAIN snOld.plugins, DOMAIN snInstalled)
                                      ELSE {})
    /\ snInstalled' = [u \in DOMAIN snInstalled \cup succ |->
                          IF u \in succ THEN "1.0" ELSE snInstalled[u]]
    /\ snChanged' = (succ # {})
    /\ snPc' = "installed"
    /\ UNCHANGED <<notSnapshot, snOld, snNow, snEnabled, snMarkets, snHas, snOps>>

\* if plugins_changed or snapshot_has_changes():
SnapDecide ==
    /\ snPc = "installed"
    /\ IF snChanged
       THEN /\ snPc' = "create"
            /\ UNCHANGED snHas
       ELSE /\ snHas' = [called |-> TRUE,
                         value |-> SnapshotHasChanges(snNow, snInstalled, snMarkets)]
            /\ snPc' = IF SnapshotHasChanges(snNow, snInstalled, snMarkets)
                       THEN "create" ELSE "done"
    /\ UNCHANGED <<notSnapshot, snOld, snNow, snEnabled, snInstalled, snMarkets,
                   snChanged, snOps>>

\* create_new_snapshot(): runs create-snapshot.py, which writes current.json
\* unless it fails.
SnapCreate(ok) ==
    /\ snPc = "create"
    /\ snNow' = IF ok THEN CreateSnapshot(snEnabled, snInstalled, snMarkets) ELSE snNow
    /\ snOps' = snOps \cup (IF ok THEN {"create", "created"} ELSE {"create"})
    /\ snPc' = "publish"
    /\ UNCHANGED <<notSnapshot, snOld, snEnabled, snInstalled, snMarkets, snChanged, snHas>>

\* sync_to_git(config)
SnapPublish ==
    /\ snPc = "publish"
    /\ snOps' = snOps \cup {"publish"}
    /\ snPc' = "done"
    /\ UNCHANGED <<notSnapshot, snOld, snNow, snEnabled, snInstalled, snMarkets,
                   snChanged, snHas>>

NextSnapshot ==
    \/ \E succ \in SUBSET SnapUnits : SnapInstall(succ)
    \/ SnapDecide
    \/ \E ok \in BOOLEAN : SnapCreate(ok)
    \/ SnapPublish

SpecSnapshot == InitSnapshot /\ [][NextSnapshot]_vars

\* Membership of the last published snapshot and of the observed state
\* differs: a remote identifier or a registry name is on one side only.
MembershipDiffers ==
    \/ {u \in DOMAIN snOld.plugins : HasAt(u)} # {u \in DOMAIN snInstalled : HasAt(u)}
    \/ snOld.marketplaces # DOMAIN snMarkets

C22_PublishOnlyIfChanged ==
    (snOld.exists /\ snOps \cap {"create", "publish"} # {}) => MembershipDiffers

\* The text of the identifier after its first "@".
SuffixAfterAt(u) == IF Len(u) = 2 THEN u[2] ELSE u[2] \o "@" \o u[3]

\* A snapshot was generated in this pass: it holds only identifiers with
\* "@" that are installed now, and no unit of the previous snapshot that is
\* not installed and enabled now.
GeneratedFromObserved ==
    /\ \A u \in DOMAIN snNow.plugins : HasAt(u) /\ u \in DOMAIN snInstalled
    /\ \A u \in DOMAIN snOld.plugins :
          u \in DOMAIN snNow.plugins => (u \in snEnabled /\ u \in DOMAIN snInstalled)

\* C23 as stated: every unit of a generated snapshot has "@", is installed,
\* and its marketplace field is the suffix after "@"; the document replaces
\* the previous one wholesale.
C23_SuffixIsMarketplace ==
    "created" \in snOps =>
        /\ GeneratedFromObserved
        /\ \A u \in DOMAIN snNow.plugins : snNow.plugins[u].marketplace = SuffixAfterAt(u)

\* C23 amended: the marketplace field is the suffix after "@" for an
\* identifier of the form name@source with both parts non-empty, and
\* "unknown" for any other identifier containing "@".
C23_GeneratedSnapshot ==
    "created" \in snOps =>
        /\ GeneratedFromObserved
        /\ \A u \in DOMAIN snNow.plugins :
              snNow.plugins[u].marketplace =
                  (IF Len(u) = 2 /\ u[1] # "" /\ u[2] # "" THEN SuffixAfterAt(u) ELSE "unknown")

\* A snapshot was generated while a local unit was enabled and installed and
\* a unit of the previous snapshot was no longer installed: the new document
\* holds a remote unit and neither of those.
C23_Witness ==
    /\ "created" \in snOps
    /\ LocalBeta \in snEnabled
    /\ LocalBeta \in DOMAIN snInstalled
    /\ Alpha \in DOMAIN snNow.plugins
    /\ snNow.plugins[Alpha].marketplace = "src1"
    /\ Beta \in DOMAIN snOld.plugins
    /\ Beta \notin DOMAIN snInstalled
    /\ Beta \notin DOMAIN snNow.plugins

\* ===================================================== marketplace registry
\* Number of registry syncs of a run.
MaxSyncs == 2

MarketNames == {"src1", "src2"}

\* Entries a machine holds in known_marketplaces.json, with their own
\* autoUpdate flag.
LocalEntries ==
    [source : {[source |-> "github", repo |-> "local/repo"]}, autoUpdate : BOOLEAN]

\* Infos of the snapshot's "marketplaces": with and without "source".
SnapshotInfos == {[source |-> "directory", repo |-> "acme/one"], [repo |-> "acme/two"]}

\* Mutant: the descriptor of the snapshot replaces the local one.
SyncedRegistryOverwriting(local, snap) ==
    [n \in DOMAIN local \cup DOMAIN snap |->
        IF n \in DOMAIN snap
        THEN [source |-> [source |-> IF "source" \in DOMAIN snap[n] THEN snap[n].source
                                     ELSE "github",
                          repo |-> snap[n].repo],
              autoUpdate |-> TRUE]
        ELSE local[n]]

\* local_data after the loop over the missing names: the names of the
\* snapshot that the local file lacks get a descriptor built from the
\* snapshot's info.
SyncedRegistry(local, snap) ==
    [n \in DOMAIN local \cup DOMAIN snap |->
        IF n \in DOMAIN local
        THEN local[n]
        ELSE [source |-> [source |-> IF "source" \in DOMAIN snap[n] THEN snap[n].source
                                     ELSE "github",
                          repo |-> snap[n].repo],
              autoUpdate |-> TRUE]]

\* Mutant: the listings are refreshed inside a session too.
RefreshTargetsAlways(missing, nested) == missing

\* The names passed to _update_single_marketplace after the write.
RefreshTargets(missing, nested) == IF nested THEN {} ELSE missing

InitRegistry ==
    /\ CoreFixed
    /\ OverlapIdle
    /\ HookIdle
    /\ SelfIdle
    /\ InstallIdle
    /\ ServiceIdle
    /\ StoreIdle
    /\ WritesIdle
    /\ RaceIdle
    /\ DriverIdle
    /\ UpdIdle
    /\ SnapIdle
    /\ rgLocal \in UNION {[D -> LocalEntries] : D \in SUBSET MarketNames}
    /\ rgPrev = rgLocal
    /\ rgSnap \in UNION {[D -> SnapshotInfos] : D \in SUBSET MarketNames}
    /\ rgNested = FALSE
    /\ rgRefreshed = {}
    /\ rgRuns = 0

notRegistry == <<core, storeVars, writeVars, raceVars, driverVars, updVars, snapVars, serviceVars, installVars, selfVars, hookVars, overlapVars>>

\* sync_marketplaces_from_snapshot()
RegistrySync(nested) ==
    /\ rgRuns < MaxSyncs
    /\ rgRuns' = rgRuns + 1
    /\ rgNested' = nested
    /\ rgPrev' = rgLocal
    /\ LET missing == DOMAIN rgSnap \ DOMAIN rgLocal
       IN  IF missing = {}
           THEN /\ rgRefreshed' = {}
                /\ UNCHANGED rgLocal
           ELSE /\ rgLocal' = SyncedRegistry(rgLocal, rgSnap)
                /\ rgRefreshed' = RefreshTargets(missing, nested)
    /\ UNCHANGED <<notRegistry, rgSnap>>

NextRegistry == \E nested \in BOOLEAN : RegistrySync(nested)

SpecRegistry == InitRegistry /\ [][NextRegistry]_vars

\* C24: a sync leaves every entry the local file had unchanged, makes the
\* local names the old names united with the snapshot's, and a second sync
\* with the same snapshot changes nothing.
C24_SyncOnlyAdds ==
    /\ rgRuns >= 1 =>
          /\ \A n \in DOMAIN rgPrev : rgLocal[n] = rgPrev[n]
          /\ DOMAIN rgLocal = DOMAIN rgPrev \cup DOMAIN rgSnap
    /\ rgRuns >= 2 => rgLocal = rgPrev

\* Two syncs ran on a file that had an entry for a name the snapshot also
\* describes, with its own flag, and lacked another name of the snapshot.
C24_Witness ==
    /\ rgRuns = 2
    /\ DOMAIN rgSnap = MarketNames
    /\ rgLocal["src1"] = [source |-> [source |-> "github", repo |-> "local/repo"],
                          autoUpdate |-> FALSE]
    /\ rgLocal["src2"].source.repo = "acme/two"

\* C25: a sync refreshes exactly the names it added when it does not run
\* inside a session of the tool, and none when it does; the descriptors are
\* added in both cases.
C25_RefreshOnlyAdded ==
    rgRuns >= 1 =>
        /\ rgRefreshed = (IF rgNested THEN {} ELSE DOMAIN rgLocal \ DOMAIN rgPrev)
        /\ DOMAIN rgSnap \subseteq DOMAIN rgLocal

\* A sync inside a session added a descriptor and refreshed nothing.
C25_Witness ==
    /\ rgRuns = 1
    /\ rgNested
    /\ DOMAIN rgPrev = {"src1"}
    /\ DOMAIN rgLocal = MarketNames
    /\ rgRefreshed = {}

\* ======================================================== startup service
\* Number of installer and self-heal calls of a run.
MaxCalls == 3

\* Number of lines of the starting crontab.
MaxLines == 3

Indicators ==
    {"dockerenv", "REMOTE_CONTAINERS", "CODESPACES", "DEVCONTAINER", "KUBERNETES_SERVICE_HOST"}

Systems == {"Darwin", "Linux", "Windows", "Other"}

\* Outcomes of "systemctl --user status": a return code, or an exception
\* (the 5 second timeout).
ProbeOutcomes ==
    {[raised |-> FALSE, rc |-> c] : c \in {0, 1, 3, 4}} \cup {[raised |-> TRUE, rc |-> 0]}

IsDevcontainer(ind) == ind # {}

GetPlatform(ind, system, which, probe) ==
    IF IsDevcontainer(ind) THEN "devcontainer"
    ELSE IF system = "Darwin" THEN "macos"
    ELSE IF system = "Linux"
         THEN IF which /\ ~probe.raised /\ probe.rc \in {0, 1, 3}
              THEN "linux_systemd"
              ELSE "linux_cron"
    ELSE IF system = "Windows" THEN "windows"
    ELSE "unknown"

\* The commands get_platform runs.
PlatformCommands(ind, system, which) ==
    IF ~IsDevcontainer(ind) /\ system = "Linux" /\ which THEN {"systemctl"} ELSE {}

\* A crontab line: its text, and whether CRON_MARKER occurs in it.
CronEntry == [text |-> "@reboot auto-manager.py", marked |-> TRUE]

CronLines ==
    {[text |-> "backup.sh", marked |-> FALSE], [text |-> "cleanup.sh", marked |-> FALSE],
     [text |-> "@reboot old_command", marked |-> TRUE], CronEntry}

Unmarked(line) == ~line.marked

Marked(line) == line.marked

\* Mutant: the entry is appended without filtering the old ones.
InstallCronLinesAppend(lines) == Append(lines, CronEntry)

\* The lines install_cron_service hands to "crontab -".
InstallCronLines(lines) == Append(SelectSeq(lines, Unmarked), CronEntry)

IsServiceInstalled(variant, plist, unit, cron, listRaises) ==
    IF variant = "macos" THEN plist
    ELSE IF variant = "linux_systemd" THEN unit
    ELSE IF variant = "linux_cron"
         THEN ~listRaises /\ \E i \in 1..Len(cron) : cron[i].marked
    ELSE TRUE

\* The commands is_service_installed runs after get_platform.
CheckCommands(variant) == IF variant = "linux_cron" THEN {"crontab"} ELSE {}

\* install_service: the registrations and the result after the variant's
\* installer; broken stands for an exception while writing the plist, a
\* failing "systemctl --user enable" after the unit file is written, and a
\* failing or timed out crontab command.
InstallService(variant, broken, plist, unit, cron) ==
    IF variant = "macos"
    THEN [plist |-> plist \/ ~broken, unit |-> unit, cron |-> cron, ok |-> ~broken]
    ELSE IF variant = "linux_systemd"
    THEN [plist |-> plist, unit |-> TRUE, cron |-> cron, ok |-> ~broken]
    ELSE IF variant = "linux_cron"
    THEN [plist |-> plist, unit |-> unit,
          cron |-> IF broken THEN cron ELSE InstallCronLines(cron), ok |-> ~broken]
    ELSE [plist |-> plist, unit |-> unit, cron |-> cron, ok |-> TRUE]

ResultOf(ok) == IF ok THEN "ok" ELSE "failed"

\* ---- the cron installer on any starting schedule
Schedules == UNION {[1..n -> CronLines] : n \in 0..MaxLines}

InitCron ==
    /\ CoreFixed
    /\ OverlapIdle
    /\ HookIdle
    /\ SelfIdle
    /\ InstallIdle
    /\ StoreIdle
    /\ WritesIdle
    /\ RaceIdle
    /\ DriverIdle
    /\ UpdIdle
    /\ SnapIdle
    /\ RegistryIdle
    /\ svIndicators = {}
    /\ svSystem = "Linux"
    /\ svWhich = FALSE
    /\ svPlist = FALSE
    /\ svUnit = FALSE
    /\ svCron \in Schedules
    /\ svCron0 = svCron
    /\ svFirst = "none"
    /\ svUsed = {}
    /\ svLast = [probe |-> [raised |-> FALSE, rc |-> 0], variant |-> "none"]
    /\ svCmds = {}
    /\ svReported = "none"
    /\ svCalled = FALSE
    /\ svResult = "none"
    /\ svPc = "idle"
    /\ svRuns = 0

notService == <<core, storeVars, writeVars, raceVars, driverVars, updVars, snapVars, registryVars, installVars, selfVars, hookVars, overlapVars>>

\* install_cron_service(plugin_dir, python_path)
CronInstall(broken) ==
    /\ svRuns < MaxCalls
    /\ svRuns' = svRuns + 1
    /\ svCron' = IF broken THEN svCron ELSE InstallCronLines(svCron)
    /\ svResult' = ResultOf(~broken)
    /\ UNCHANGED <<notService, svIndicators, svSystem, svWhich, svPlist, svUnit, svCron0,
                   svFirst, svUsed, svLast, svCmds, svReported, svCalled, svPc>>

NextCron == \E broken \in BOOLEAN : CronInstall(broken)

SpecCron == InitCron /\ [][NextCron]_vars

InitService ==
    /\ CoreFixed
    /\ OverlapIdle
    /\ HookIdle
    /\ SelfIdle
    /\ InstallIdle
    /\ StoreIdle
    /\ WritesIdle
    /\ RaceIdle
    /\ DriverIdle
    /\ UpdIdle
    /\ SnapIdle
    /\ RegistryIdle
    /\ svIndicators \in {{}, Indicators} \cup {{i} : i \in Indicators}
    /\ svSystem \in Systems
    /\ svWhich \in BOOLEAN
    /\ svPlist = FALSE
    /\ svUnit = FALSE
    /\ svCron \in {<<>>, <<[text |-> "backup.sh", marked |-> FALSE]>>}
    /\ svCron0 = svCron
    /\ svFirst = "none"
    /\ svUsed = {}
    /\ svLast = [probe |-> [raised |-> FALSE, rc |-> 0], variant |-> "none"]
    /\ svCmds = {}
    /\ svReported = "none"
    /\ svCalled = FALSE
    /\ svResult = "none"
    /\ svPc = "idle"
    /\ svRuns = 0

\* Outcome of is_service_installed for the caller.
Reported(raised, found) ==
    IF raised THEN "raised" ELSE IF found THEN "present" ELSE "absent"

\* Mutant: the reinstall runs whatever the check reported.
ReinstallNeededAlways(reported) == TRUE

\* ensure_startup_service returns after the check unless it reported absent.
ReinstallNeeded(reported) == reported = "absent"

\* is_service_installed()
ServiceCheck(probe, listRaises) ==
    /\ svPc = "idle"
    /\ svRuns < MaxCalls
    /\ svRuns' = svRuns + 1
    /\ LET variant == GetPlatform(svIndicators, svSystem, svWhich, probe)
       IN  /\ svLast' = [probe |-> probe, variant |-> variant]
           /\ svCmds' = PlatformCommands(svIndicators, svSystem, svWhich)
                            \cup CheckCommands(variant)
           /\ svReported' = Reported(FALSE, IsServiceInstalled(variant, svPlist, svUnit,
                                                                svCron, listRaises))
           /\ svUsed' = IF svFirst # "none" THEN svUsed \cup {variant} ELSE svUsed
    /\ UNCHANGED <<notService, svIndicators, svSystem, svWhich, svPlist, svUnit, svCron,
                   svCron0, svFirst, svCalled, svResult, svPc>>

\* install_service(plugin_dir)
ServiceInstall(probe, broken) ==
    /\ svPc = "idle"
    /\ svRuns < MaxCalls
    /\ svRuns' = svRuns + 1
    /\ LET variant == GetPlatform(svIndicators, svSystem, svWhich, probe)
           after == InstallService(variant, broken, svPlist, svUnit, svCron)
       IN  /\ svLast' = [probe |-> probe, variant |-> variant]
           /\ svPlist' = after.plist
           /\ svUnit' = after.unit
           /\ svCron' = after.cron
           /\ svResult' = ResultOf(after.ok)
           /\ svFirst' = IF svFirst = "none" THEN variant ELSE svFirst
           /\ svUsed' = svUsed \cup {variant}
    /\ UNCHANGED <<notService, svIndicators, svSystem, svWhich, svCron0, svCmds,
                   svReported, svCalled, svPc>>

\* ensure_startup_service(), called by main before the cooldown guard.
PassEnsure(probe1, listRaises, checkRaises, probe2, broken, installRaises) ==
    /\ svPc = "idle"
    /\ svRuns < MaxCalls
    /\ svRuns' = svRuns + 1
    /\ LET checked == GetPlatform(svIndicators, svSystem, svWhich, probe1)
           reported == Reported(checkRaises,
                                IsServiceInstalled(checked, svPlist, svUnit, svCron, listRaises))
           variant == GetPlatform(svIndicators, svSystem, svWhich, probe2)
           after == InstallService(variant, broken, svPlist, svUnit, svCron)
           used == IF svFirst # "none" THEN svUsed \cup {checked} ELSE svUsed
       IN  /\ svCmds' = PlatformCommands(svIndicators, svSystem, svWhich)
                            \cup CheckCommands(checked)
           /\ svReported' = reported
           /\ svCalled' = ReinstallNeeded(reported)
           /\ IF ReinstallNeeded(reported)
              THEN /\ svLast' = [probe |-> probe2, variant |-> variant]
                   /\ svPlist' = after.plist
                   /\ svUnit' = after.unit
                   /\ svCron' = after.cron
                   /\ svResult' = IF installRaises THEN "raised" ELSE ResultOf(after.ok)
                   /\ svFirst' = IF svFirst = "none" THEN variant ELSE svFirst
                   /\ svUsed' = used \cup {variant}
              ELSE /\ svLast' = [probe |-> probe1, variant |-> checked]
                   /\ svUsed' = used
                   /\ UNCHANGED <<svPlist, svUnit, svCron, svResult, svFirst>>
    /\ svPc' = "ensured"
    /\ UNCHANGED <<notService, svIndicators, svSystem, svWhich, svCron0>>

\* The steps of main after ensure_startup_service().
PassRest ==
    /\ svPc = "ensured"
    /\ svPc' = "idle"
    /\ UNCHANGED <<notService, svIndicators, svSystem, svWhich, svPlist, svUnit, svCron,
                   svCron0, svFirst, svUsed, svLast, svCmds, svReported, svCalled,
                   svResult, svRuns>>

NextService ==
    \/ \E probe \in ProbeOutcomes, listRaises \in BOOLEAN : ServiceCheck(probe, listRaises)
    \/ \E probe \in ProbeOutcomes, broken \in BOOLEAN : ServiceInstall(probe, broken)
    \/ \E probe1, probe2 \in ProbeOutcomes,
          listRaises, checkRaises, broken, installRaises \in BOOLEAN :
            PassEnsure(probe1, listRaises, checkRaises, probe2, broken, installRaises)
    \/ PassRest

SpecService == InitService /\ [][NextService]_vars

\* The commands of the service managers.
ControlPlane == {"launchctl", "systemctl"}

\* C27: the existence check runs no command of a service manager, on any
\* platform variant.
C27_CheckRunsNoControlPlane ==
    svReported # "none" => svCmds \cap ControlPlane = {}

Registrations ==
    {v \in {"macos", "linux_systemd", "linux_cron"} :
        \/ v = "macos" /\ svPlist
        \/ v = "linux_systemd" /\ svUnit
        \/ v = "linux_cron" /\ \E i \in 1..Len(svCron) : svCron[i].marked}

\* C29: from the first install on, every check and install uses the variant
\* of the first install, and at most one variant has a registration.
C29_OneVariantPerMachine ==
    svFirst # "none" =>
        /\ svUsed = {svFirst}
        /\ Cardinality(Registrations) <= 1

\* A probe that answers 0 (running) or 3 (degraded or inactive) found the
\* user-level init system.
ProbeSucceeds(probe) == ~probe.raised /\ probe.rc \in {0, 3}

\* C30: get_platform returns devcontainer with any sandbox indicator, else
\* macos on Darwin, else on Linux linux_systemd when systemctl exists and
\* the probe succeeds and linux_cron otherwise, windows on Windows, and
\* unknown for anything else.
C30_DetectionPrecedence ==
    svLast.variant # "none" =>
        svLast.variant =
            IF svIndicators # {} THEN "devcontainer"
            ELSE IF svSystem = "Darwin" THEN "macos"
            ELSE IF svSystem = "Linux"
                 THEN IF svWhich /\ ProbeSucceeds(svLast.probe)
                      THEN "linux_systemd"
                      ELSE "linux_cron"
            ELSE IF svSystem = "Windows" THEN "windows"
            ELSE "unknown"

\* ============================================== the installers, step by step
Variants == {"devcontainer", "macos", "linux_systemd", "linux_cron", "windows", "unknown"}

\* What subprocess.run does with a command: exit code zero, a non-zero exit
\* code, or an exception (command missing, timeout).
CommandOutcomes == {"zero", "nonzero", "raises"}

\* install_launchagent: the plist is renamed into place, then launchctl
\* unload and load run without check; the whole body is in one try.
InstallLaunchagent(run, regs) ==
    IF ~run.wrote THEN [regs |-> regs, cmds |-> {}, ok |-> FALSE]
    ELSE [regs |-> [regs EXCEPT !.plist = TRUE],
          cmds |-> {"launchctl"},
          ok |-> run.c1 # "raises" /\ run.c2 # "raises"]

\* install_systemd_service: the unit file is renamed into place, then
\* daemon-reload and enable run with check=True and start without.
InstallSystemdService(run, regs) ==
    IF ~run.wrote THEN [regs |-> regs, cmds |-> {}, ok |-> FALSE]
    ELSE [regs |-> [regs EXCEPT !.unit = TRUE],
          cmds |-> {"systemctl"},
          ok |-> run.c1 = "zero" /\ run.c2 = "zero" /\ run.c3 # "raises"]

\* install_cron_service: crontab -l, then crontab - with the new lines.
InstallCronService(run, regs) ==
    IF run.c1 = "raises" THEN [regs |-> regs, cmds |-> {"crontab"}, ok |-> FALSE]
    ELSE IF run.c2 = "zero"
         THEN [regs |-> [regs EXCEPT !.marked = TRUE], cmds |-> {"crontab"}, ok |-> TRUE]
         ELSE [regs |-> regs, cmds |-> {"crontab"}, ok |-> FALSE]

\* Mutant: the launch agent installer is the default of the dispatch.
InstallByVariantDefault(variant, run, regs) ==
    IF variant = "linux_systemd" THEN InstallSystemdService(run, regs)
    ELSE IF variant = "linux_cron" THEN InstallCronService(run, regs)
    ELSE InstallLaunchagent(run, regs)

\* install_service after get_platform.
InstallByVariant(variant, run, regs) ==
    IF variant = "macos" THEN InstallLaunchagent(run, regs)
    ELSE IF variant = "linux_systemd" THEN InstallSystemdService(run, regs)
    ELSE IF variant = "linux_cron" THEN InstallCronService(run, regs)
    ELSE [regs |-> regs, cmds |-> {}, ok |-> TRUE]

\* is_service_installed after get_platform.
CheckByVariant(variant, regs, listRaises) ==
    IF variant = "macos" THEN regs.plist
    ELSE IF variant = "linux_systemd" THEN regs.unit
    ELSE IF variant = "linux_cron" THEN ~listRaises /\ regs.marked
    ELSE TRUE

Runs == [wrote : BOOLEAN, c1 : CommandOutcomes, c2 : CommandOutcomes, c3 : CommandOutcomes]

InitInstall ==
    /\ CoreFixed
    /\ OverlapIdle
    /\ HookIdle
    /\ SelfIdle
    /\ StoreIdle
    /\ WritesIdle
    /\ RaceIdle
    /\ DriverIdle
    /\ UpdIdle
    /\ SnapIdle
    /\ RegistryIdle
    /\ ServiceIdle
    /\ inVariant \in Variants
    /\ inRegs = [plist |-> FALSE, unit |-> FALSE, marked |-> FALSE]
    /\ inRun = [wrote |-> TRUE, c1 |-> "zero", c2 |-> "zero", c3 |-> "zero"]
    /\ inCmds = {}
    /\ inResult = "none"
    /\ inReported = "none"
    /\ inPc = "idle"

notInstall == <<core, storeVars, writeVars, raceVars, driverVars, updVars, snapVars, registryVars, serviceVars, selfVars, hookVars, overlapVars>>

\* install_service(plugin_dir)
InstallRun(run) ==
    /\ inPc = "idle"
    /\ LET after == InstallByVariant(inVariant, run, inRegs)
       IN  /\ inRegs' = after.regs
           /\ inCmds' = after.cmds
           /\ inResult' = ResultOf(after.ok)
    /\ inRun' = run
    /\ inPc' = "installed"
    /\ UNCHANGED <<notInstall, inVariant, inReported>>

\* is_service_installed() of the pass that follows
InstallCheck(listRaises) ==
    /\ inPc = "installed"
    /\ inReported' = IF CheckByVariant(inVariant, inRegs, listRaises) THEN "present" ELSE "absent"
    /\ inPc' = "checked"
    /\ UNCHANGED <<notInstall, inVariant, inRegs, inRun, inCmds, inResult>>

NextInstall ==
    \/ \E run \in Runs : InstallRun(run)
    \/ \E listRaises \in BOOLEAN : InstallCheck(listRaises)

SpecInstall == InitInstall /\ [][NextInstall]_vars

\* C31: on the launch agent variant, once the plist was written it is at
\* its path and the install reports success, whatever unload and load did.
C31_LaunchctlFailureNotFatal ==
    (inPc # "idle" /\ inVariant = "macos" /\ inRun.wrote) =>
        inRegs.plist /\ inResult = "ok"

\* C32: on the sandboxed, Windows and unknown variants the install writes
\* nothing, runs no command and returns True, and the check reports present.
C32_NoServiceVariants ==
    (inPc # "idle" /\ inVariant \in {"devcontainer", "windows", "unknown"}) =>
        /\ inRegs = [plist |-> FALSE, unit |-> FALSE, marked |-> FALSE]
        /\ inCmds = {}
        /\ inResult = "ok"
        /\ inPc = "checked" => inReported = "present"

\* The sandboxed variant went through an install, in an environment where
\* every write and command would have failed, and through the check.
C32_Witness ==
    /\ inPc = "checked"
    /\ inVariant = "devcontainer"
    /\ inRun = [wrote |-> FALSE, c1 |-> "raises", c2 |-> "raises", c3 |-> "raises"]
    /\ inResult = "ok"
    /\ inReported = "present"

\* C40: after an install that reported failure, the existence check reports
\* absent.
C40_FailedInstallReportedAbsent ==
    (inPc = "checked" /\ inResult = "failed") => inReported = "absent"

\* ======================================================== self-registration
SelfName == "auto-manager"

RegisteredNames == {SelfName, "alpha@src1", "beta@src2"}

\* installed_plugins.json: absent, unreadable, or a document with the names
\* under "plugins"; writer tells who wrote the file last.
InstalledFiles ==
    {[exists |-> FALSE, readable |-> FALSE, plugins |-> {}, writer |-> "none"],
     [exists |-> TRUE, readable |-> FALSE, plugins |-> {}, writer |-> "tool"]}
    \cup {[exists |-> TRUE, readable |-> TRUE, plugins |-> P, writer |-> "tool"] :
            P \in SUBSET RegisteredNames}

\* What a run of the external tool leaves: the file as it was, or a file
\* rebuilt with names of its choice.
ToolLeaves(file) ==
    {file} \cup {[exists |-> TRUE, readable |-> TRUE, plugins |-> P, writer |-> "tool"] :
                    P \in SUBSET RegisteredNames}

\* Mutant: the entry is only looked for.
EnsureSelfRegisteredNoRepair(file) == file

\* ensure_self_registered()
EnsureSelfRegistered(file) ==
    IF ~file.exists \/ ~file.readable THEN file
    ELSE IF SelfName \in file.plugins THEN file
    ELSE [file EXCEPT !.plugins = @ \cup {SelfName}, !.writer = "self"]

InitSelf ==
    /\ CoreFixed
    /\ OverlapIdle
    /\ HookIdle
    /\ StoreIdle
    /\ WritesIdle
    /\ RaceIdle
    /\ DriverIdle
    /\ UpdIdle
    /\ SnapIdle
    /\ RegistryIdle
    /\ ServiceIdle
    /\ InstallIdle
    /\ srFile \in InstalledFiles
    /\ srBefore = srFile
    /\ srCfg \in [install : BOOLEAN, update : BOOLEAN]
    /\ srRan = {}
    /\ srPc = "start"

notSelf == <<core, storeVars, writeVars, raceVars, driverVars, updVars, snapVars, registryVars, serviceVars, installVars, hookVars, overlapVars>>

\* main: ensure_self_registered() at the start of the pass
SelfStart ==
    /\ srPc = "start"
    /\ srBefore' = srFile
    /\ srFile' = EnsureSelfRegistered(srFile)
    /\ srPc' = "install"
    /\ UNCHANGED <<notSelf, srCfg, srRan>>

\* main: install_missing_plugins() and ensure_self_registered() after it
SelfInstallStep(left) ==
    /\ srPc = "install"
    /\ IF srCfg.install
       THEN /\ left \in ToolLeaves(srFile)
            /\ srBefore' = left
            /\ srFile' = EnsureSelfRegistered(left)
            /\ srRan' = srRan \cup {"install"}
       ELSE /\ left = srFile
            /\ UNCHANGED <<srFile, srBefore, srRan>>
    /\ srPc' = "update"
    /\ UNCHANGED <<notSelf, srCfg>>

\* main: update_all_plugins() and ensure_self_registered() after it
SelfUpdateStep(left) ==
    /\ srPc = "update"
    /\ IF srCfg.update
       THEN /\ left \in ToolLeaves(srFile)
            /\ srBefore' = left
            /\ srFile' = EnsureSelfRegistered(left)
            /\ srRan' = srRan \cup {"update"}
       ELSE /\ left = srFile
            /\ UNCHANGED <<srFile, srBefore, srRan>>
    /\ srPc' = "end"
    /\ UNCHANGED <<notSelf, srCfg>>

NextSelf ==
    \/ SelfStart
    \/ \E left \in InstalledFiles \cup ToolLeaves(srFile) : SelfInstallStep(left)
    \/ \E left \in InstalledFiles \cup ToolLeaves(srFile) : SelfUpdateStep(left)

SpecSelf == InitSelf /\ [][NextSelf]_vars

\* C33: at the end of a pass that ran the install or the update step, a
\* readable installed_plugins.json holds the auto-manager entry, and a file
\* that already held it was not rewritten by the latest re-assertion.
C33_SelfRegistrationReasserted ==
    /\ (srPc = "end" /\ srRan # {} /\ srFile.exists /\ srFile.readable) =>
          SelfName \in srFile.plugins
    /\ (srBefore.exists /\ srBefore.readable /\ SelfName \in srBefore.plugins) =>
          srFile = srBefore

\* The tool rebuilt the file without the entry during the update step, and
\* the pass ended with the entry written back.
C33_Witness ==
    /\ srPc = "end"
    /\ "update" \in srRan
    /\ srBefore.exists /\ srBefore.readable
    /\ SelfName \notin srBefore.plugins
    /\ srFile.writer = "self"
    /\ srFile.plugins = RegisteredNames

\* ============================================ records across a pass (Spec)

\* C34: a step of a pass never removes a unit from the persisted records,
\* and leaves the record of every unit the pass did not attempt as it was.
C34_RecordsNeverDeleted ==
    [][(pc \notin {"idle", "fatal"} /\ ~LoadRaises(StateFile) /\ ~LoadRaises(StateFile')) =>
          \A u \in DOMAIN LoadInstallState(StateFile) :
              /\ u \in DOMAIN LoadInstallState(StateFile')
              /\ u \notin to_install =>
                    LoadInstallState(StateFile')[u] = LoadInstallState(StateFile)[u]]_vars

\* A pass saved the results of its attempts while a unit it did not attempt
\* had a record.
C34_Witness ==
    /\ pc = "update"
    /\ to_install # {}
    /\ ~LoadRaises(StateFile)
    /\ \E u \in DOMAIN LoadInstallState(StateFile) : u \notin to_install
    /\ \E u \in DOMAIN LoadInstallState(StateFile) : u \in to_install

\* ============================================================== global hook
HOOK_TIMEOUT == 120

\* Number of ensure_global_hook calls of a run.
MaxEnsures == 2

\* Number of hook groups under "SessionStart" at the start.
MaxGroups == 2

\* A hook of a group: its command (the session-start script or another
\* one), whether "async" is true, and its timeout.
ScriptHook == [command |-> "session-start.sh", async |-> TRUE, timeout |-> HOOK_TIMEOUT]

OldScriptHook == [command |-> "session-start.sh", async |-> FALSE, timeout |-> 30]

OtherHook == [command |-> "echo test", async |-> FALSE, timeout |-> 30]

Hooks == {ScriptHook, OldScriptHook, OtherHook}

\* A hook group: its matcher ("none" when the key is absent) and its hooks.
HookGroups ==
    [matcher : {"none", "startup"}, hooks : UNION {[1..n -> Hooks] : n \in 1..2}]

\* _build_hook_entry(command)
BuildHookEntry == [matcher |-> "startup", hooks |-> <<ScriptHook>>]

IsScript(hook) == hook.command = "session-start.sh"

HasScript(group) == \E j \in 1..Len(group.hooks) : IsScript(group.hooks[j])

\* existing_idx and existing_hook_idx: the first group with a hook of the
\* script, and the first such hook in it (0 when there is none).
ExistingIdx(session) ==
    IF \E i \in 1..Len(session) : HasScript(session[i])
    THEN CHOOSE i \in 1..Len(session) :
            HasScript(session[i]) /\ \A k \in 1..(i - 1) : ~HasScript(session[k])
    ELSE 0

ExistingHookIdx(group) ==
    CHOOSE j \in 1..Len(group.hooks) :
        IsScript(group.hooks[j]) /\ \A k \in 1..(j - 1) : ~IsScript(group.hooks[k])

NeedsUpgrade(group, hook) ==
    group.matcher = "none" \/ ~hook.async \/ hook.timeout # HOOK_TIMEOUT

Upgraded(group, j) ==
    [matcher |-> IF group.matcher = "none" THEN "startup" ELSE group.matcher,
     hooks |-> [group.hooks EXCEPT ![j] = [@ EXCEPT !.async = TRUE, !.timeout = HOOK_TIMEOUT]]]

\* Mutant: the entry is appended without looking for an existing one.
EnsureGlobalHookAppend(doc) ==
    IF doc.exists /\ ~doc.readable
    THEN [doc |-> doc, wrote |-> FALSE, said |-> "error"]
    ELSE [doc |-> [doc EXCEPT !.exists = TRUE, !.readable = TRUE,
                              !.session = Append(@, BuildHookEntry)],
          wrote |-> TRUE, said |-> "configured"]

\* ensure_global_hook(): the document after the call, whether the file was
\* written, and the message logged.
EnsureGlobalHook(doc) ==
    IF doc.exists /\ ~doc.readable
    THEN [doc |-> doc, wrote |-> FALSE, said |-> "error"]
    ELSE LET i == ExistingIdx(doc.session)
         IN  IF i = 0
             THEN [doc |-> [doc EXCEPT !.exists = TRUE, !.readable = TRUE,
                                       !.session = Append(@, BuildHookEntry)],
                   wrote |-> TRUE, said |-> "configured"]
             ELSE LET j == ExistingHookIdx(doc.session[i])
                  IN  IF NeedsUpgrade(doc.session[i], doc.session[i].hooks[j])
                      THEN [doc |-> [doc EXCEPT !.session[i] = Upgraded(@, j)],
                            wrote |-> TRUE, said |-> "configured"]
                      ELSE [doc |-> doc, wrote |-> FALSE, said |-> "already configured"]

SettingsDocuments ==
    {[exists |-> FALSE, readable |-> FALSE, other |-> "none", pre |-> FALSE, session |-> <<>>],
     [exists |-> TRUE, readable |-> FALSE, other |-> "none", pre |-> FALSE, session |-> <<>>]}
    \cup [exists : {TRUE}, readable : {TRUE}, other : {"none", "value"}, pre : BOOLEAN,
          session : UNION {[1..n -> HookGroups] : n \in 0..MaxGroups}]

InitHook ==
    /\ CoreFixed
    /\ OverlapIdle
    /\ StoreIdle
    /\ WritesIdle
    /\ RaceIdle
    /\ DriverIdle
    /\ UpdIdle
    /\ SnapIdle
    /\ RegistryIdle
    /\ ServiceIdle
    /\ InstallIdle
    /\ SelfIdle
    /\ ghDoc \in SettingsDocuments
    /\ ghDoc0 = ghDoc
    /\ ghPrev = ghDoc
    /\ ghWrote = FALSE
    /\ ghSaid = "none"
    /\ ghCalls = 0

notHook == <<core, storeVars, writeVars, raceVars, driverVars, updVars, snapVars, registryVars, serviceVars, installVars, selfVars, overlapVars>>

\* ensure_global_hook()
HookEnsure ==
    /\ ghCalls < MaxEnsures
    /\ ghCalls' = ghCalls + 1
    /\ ghPrev' = ghDoc
    /\ LET after == EnsureGlobalHook(ghDoc)
       IN  /\ ghDoc' = after.doc
           /\ ghWrote' = after.wrote
           /\ ghSaid' = after.said
    /\ UNCHANGED <<notHook, ghDoc0>>

NextHook == HookEnsure

SpecHook == InitHook /\ [][NextHook]_vars

\* The settings document of test_skips_if_hook_already_exists: one group
\* without matcher, holding the script with timeout 30 and no async.
LegacyHookDocument ==
    [exists |-> TRUE, readable |-> TRUE, other |-> "none", pre |-> FALSE,
     session |-> <<[matcher |-> "none", hooks |-> <<OldScriptHook>>]>>]

\* C35: on a document that holds the script with timeout 30 and neither
\* matcher nor async, the call reports already configured and leaves the
\* document unchanged.
C35_LegacyEntryLeftAlone ==
    (ghCalls >= 1 /\ ghPrev = LegacyHookDocument) =>
        ghSaid = "already configured" /\ ghDoc = ghPrev

\* Number of hooks under "SessionStart" whose command is the script.
ScriptEntries(session) ==
    Cardinality({<<i, j>> \in (1..Len(session)) \X (1..2) :
                    j <= Len(session[i].hooks) /\ IsScript(session[i].hooks[j])})

\* Every key other than "hooks"."SessionStart" is as at the start, and so is
\* every group and hook other than the first hook of the script.
RestPreserved ==
    /\ ghDoc.other = ghDoc0.other
    /\ ghDoc.pre = ghDoc0.pre
    /\ LET i == ExistingIdx(ghDoc0.session)
       IN  IF i = 0
           THEN SubSeq(ghDoc.session, 1, Len(ghDoc0.session)) = ghDoc0.session
           ELSE /\ Len(ghDoc.session) = Len(ghDoc0.session)
                /\ \A k \in 1..Len(ghDoc0.session) : k # i => ghDoc.session[k] = ghDoc0.session[k]
                /\ Len(ghDoc.session[i].hooks) = Len(ghDoc0.session[i].hooks)
                /\ \A k \in 1..Len(ghDoc0.session[i].hooks) :
                      k # ExistingHookIdx(ghDoc0.session[i]) =>
                          ghDoc.session[i].hooks[k] = ghDoc0.session[i].hooks[k]

\* C36 as stated: after one or more calls on any starting document exactly
\* one hook has the script as its command, the rest is unchanged, and the
\* second and later calls write nothing.
C36_ExactlyOneEntry ==
    ghCalls >= 1 =>
        /\ ScriptEntries(ghDoc.session) = 1
        /\ RestPreserved
        /\ ghCalls >= 2 => ~ghWrote

\* C36, amended: on an absent or readable starting document the calls leave
\* as many hooks of the script as there were, and one when there was none;
\* the rest is unchanged and the second and later calls write nothing; an
\* unreadable document is left as it is.
C36_IdempotentHook ==
    ghCalls >= 1 =>
        /\ (ghDoc0.exists /\ ~ghDoc0.readable) => (ghDoc = ghDoc0 /\ ~ghWrote)
        /\ ~(ghDoc0.exists /\ ~ghDoc0.readable) =>
              /\ ScriptEntries(ghDoc.session) =
                    IF ScriptEntries(ghDoc0.session) = 0 THEN 1 ELSE ScriptEntries(ghDoc0.session)
              /\ RestPreserved
        /\ ghCalls >= 2 => ~ghWrote

\* Two calls ran on a document with another setting, another group and no
\* hook of the script; the entry was appended once.
C36_Witness ==
    /\ ghCalls = 2
    /\ ghDoc0.other = "value"
    /\ ghDoc0.pre
    /\ Len(ghDoc0.session) = 1
    /\ ScriptEntries(ghDoc0.session) = 0
    /\ ghDoc.session = Append(ghDoc0.session, BuildHookEntry)

\* ==================================================== publish fixpoint
\* C37: right after a snapshot was regenerated from the observed state,
\* snapshot_has_changes on that snapshot and the same state is false.
C37_PublishFixpoint ==
    "created" \in snOps => ~SnapshotHasChanges(snNow, snInstalled, snMarkets)

\* ============================================================== convergence
\* Last clock value (seconds) at which a pass may still begin.
MaxConvTime == 7300

\* Seconds between the beginnings of two consecutive passes.
PassGaps == {RETRY_INTERVAL_SECONDS}

\* Seconds between the check of a pass and the stamp of its attempts.
StampDelays == {0, 1}

\* The loop of install_missing_plugins over the set todo, all attempts
\* stamped t.
RECURSIVE RecordAll(_, _, _, _)
RecordAll(state, todo, outcomes, t) ==
    IF todo = {}
    THEN state
    ELSE LET u == CHOOSE x \in todo : TRUE
         IN  RecordAll(RecordResult(state, u, InstallPlugin(u, outcomes[u]), t),
                       todo \ {u}, outcomes, t)

\* The record of u says the unit is given up.
IsAbandoned(state, u) == HasFailed(state, u) /\ state[u].retry_count > MAX_RETRY_COUNT

\* The pass begins with no install-state file or with one whose text is not
\* valid JSON.
InitConverge ==
    /\ now = 0
    /\ snapshot = {Alpha, Beta, LocalBeta}
    /\ installed \in InstalledChoices
    /\ fs \in {[p \in Paths |-> NoFile],
               [p \in Paths |-> IF p = StatePath
                                THEN [exists |-> TRUE, content |-> <<[tok |-> "open"]>>]
                                ELSE NoFile]}
    /\ pc = "idle"
    /\ to_install = {}
    /\ remaining = {}
    /\ mem = EmptyState
    /\ updRemaining = {}
    /\ installCalls = {}
    /\ updateCalls = {}
    /\ fails = [u \in RemoteUnits |-> 0]
    /\ firstFailT = [u \in RemoteUnits |-> 0]
    /\ lastAttT = [u \in RemoteUnits |-> 0]
    /\ saveOld = NoFile
    /\ saveNew = NoFile
    /\ AuxIdle

\* One whole pass, begun gap seconds after the previous one began:
\* check_missing_plugins, then install_missing_plugins with its save; the
\* pass ends at load_install_state when json.loads raises.
ConvergePass(gap, delay, outcomes) ==
    /\ pc = "idle"
    /\ now + gap <= MaxConvTime
    /\ now' = now + gap
    /\ IF LoadRaises(StateFile)
       THEN UNCHANGED <<installed, fs>>
       ELSE LET state == LoadInstallState(StateFile)
                todo == ToInstall(snapshot, installed, state, now + gap)
                after == RecordAll(state, todo, outcomes, now + gap + delay)
            IN  /\ installed' = installed \cup {u \in todo : InstallPlugin(u, outcomes[u])}
                /\ fs' = IF todo = {}
                         THEN fs
                         ELSE [fs EXCEPT ![StatePath] = DocFile(after, now + gap + delay)]
    /\ UNCHANGED <<snapshot, pc, to_install, remaining, mem, updRemaining, installCalls,
                   updateCalls, ghosts, saveOld, saveNew>>
    /\ UNCHANGED aux

NextConverge ==
    \E gap \in PassGaps, delay \in StampDelays, outcomes \in [RemoteUnits -> {"ok", "fail"}] :
        ConvergePass(gap, delay, outcomes)

SpecConverge == InitConverge /\ [][NextConverge]_vars /\ WF_vars(NextConverge)

Triggers == {1, 2}

\* Clock value of the two passes; the records on file are stamped 0.
OverlapTime == RETRY_INTERVAL_SECONDS

\* The install-state files before the passes: none, or a failed record of
\* Beta with any retry count that still allows a retry.
OverlapFiles ==
    {NoFile} \cup
    {DocFile(Put(EmptyState, Beta, [FirstFailedRecord(0) EXCEPT !.retry_count = k]), 0) :
        k \in 1..MAX_RETRY_COUNT}

\* retry_count on file for unit u, 0 without a failed record.
RetryCountOf(file, u) ==
    IF HasFailed(LoadInstallState(file), u) THEN LoadInstallState(file)[u].retry_count ELSE 0

InitOverlap ==
    /\ CoreFixed
    /\ StoreIdle
    /\ WritesIdle
    /\ RaceIdle
    /\ DriverIdle
    /\ UpdIdle
    /\ SnapIdle
    /\ RegistryIdle
    /\ ServiceIdle
    /\ InstallIdle
    /\ SelfIdle
    /\ HookIdle
    /\ ovPc = <<"check", "check">>
    /\ ovTodo = <<{}, {}>>
    /\ ovMem = <<EmptyState, EmptyState>>
    /\ ovFile \in OverlapFiles
    /\ ovFile0 = ovFile
    /\ ovAttempts = 0

notOverlap == <<core, storeVars, writeVars, raceVars, driverVars, updVars, snapVars, registryVars, serviceVars, installVars, selfVars, hookVars>>

\* check_missing_plugins() of pass p
OverlapCheck(p) ==
    /\ ovPc[p] = "check"
    /\ LET todo == ToInstall(snapshot, installed, LoadInstallState(ovFile), OverlapTime)
       IN  /\ ovTodo' = [ovTodo EXCEPT ![p] = todo]
           /\ ovPc' = [ovPc EXCEPT ![p] = IF todo = {} THEN "done" ELSE "load"]
    /\ UNCHANGED <<notOverlap, ovMem, ovFile, ovFile0, ovAttempts>>

\* install_missing_plugins of pass p: state = load_install_state()
OverlapLoad(p) ==
    /\ ovPc[p] = "load"
    /\ ovMem' = [ovMem EXCEPT ![p] = LoadInstallState(ovFile)]
    /\ ovPc' = [ovPc EXCEPT ![p] = "attempt"]
    /\ UNCHANGED <<notOverlap, ovTodo, ovFile, ovFile0, ovAttempts>>

\* install_missing_plugins of pass p: the loop; every install fails
OverlapAttempt(p) ==
    /\ ovPc[p] = "attempt"
    /\ ovMem' = [ovMem EXCEPT ![p] = RecordAll(@, ovTodo[p], [u \in RemoteUnits |-> "fail"],
                                               OverlapTime)]
    /\ ovAttempts' = ovAttempts + Cardinality(ovTodo[p])
    /\ ovPc' = [ovPc EXCEPT ![p] = "save"]
    /\ UNCHANGED <<notOverlap, ovTodo, ovFile, ovFile0>>

\* install_missing_plugins of pass p: save_install_state(state)
OverlapSave(p) ==
    /\ ovPc[p] = "save"
    /\ ovFile' = DocFile(ovMem[p], OverlapTime)
    /\ ovPc' = [ovPc EXCEPT ![p] = "done"]
    /\ UNCHANGED <<notOverlap, ovTodo, ovMem, ovFile0, ovAttempts>>

NextOverlap ==
    \E p \in Triggers : OverlapCheck(p) \/ OverlapLoad(p) \/ OverlapAttempt(p) \/ OverlapSave(p)

SpecOverlap == InitOverlap /\ [][NextOverlap]_vars

\* C39: when both passes have finished, the retry count on file has grown
\* by the number of failed attempts the two passes made on the unit.
C39_OverlapCountsBoth ==
    (ovPc = <<"done", "done">>) =>
        RetryCountOf(ovFile, Beta) = RetryCountOf(ovFile0, Beta) + ovAttempts

====
